---- MODULE Spec2Model ----
(***************************************************************************)
(* Model of the vision-hub face-recognition pipeline.                      *)
(*                                                                         *)
(*   inference/processor.py  FaceRecognitionProcessor: one worker thread   *)
(*       per camera runs process_frame; known matches go through           *)
(*       handle_known_face (confirmation counter, attendance log, ledger,  *)
(*       matched evidence), unknown matches through handle_unknown_face    *)
(*       (per-camera cooldown, unknown evidence); every handled box is     *)
(*       handed to the on_violation callback.                              *)
(*   backend/routers/video_feed.py  _emit_violation/_should_emit_violation:*)
(*       the rate-limited forwarder wired as on_violation.                 *)
(*                                                                         *)
(* Time is one integer clock `now` (seconds).  It stands for time.time()   *)
(* and for datetime.now(); it starts at Epoch, far from 0, as the Unix     *)
(* clock does.  File-system and callback outcomes are chosen by the        *)
(* environment.                                                            *)
(***************************************************************************)
EXTENDS Integers, Sequences, FiniteSets, TLC

\* ---------------------------------------------------------------- bounds
MaxConfirmations == 3
MaxInterval == 1
TimeHorizon == 2
HourLen == 2
MaxDetections == 3
MaxWindow == 2
MaxOffers == 4
MaxSide == 1
MaxDist == 2
MaxFailures == 2
MaxDelay == 2
MaxGallery == 3
SubPixel == 2
MaxSkip == 2
MaxFrames == 4
MaxProcs == 3

\* ---------------------------------------------------------------- domains
Cameras == {"C1", "C2"}
Labels == {"Alice"}
Unknown == "Unknown"
Free == "free"
Epoch == MaxInterval + MaxWindow
MaxTime == Epoch + TimeHorizon
KnownHorizon == TimeHorizon - 1
NoFile == <<>>
NoPath == -1
Skip == -1
Header == [name |-> "Name", ts |-> -1, cam |-> "CameraID"]
NoCrop == <<>>
NoEmbedding == <<>>
min_face_size == 1
threshold == 1

VARIABLES
    \* configuration (self.parameters, on_attendance)
    required_confirmations, unknown_interval, has_on_attendance,
    \* environment clock
    now,
    \* FaceRecognitionProcessor fields
    lock, attendance_log, confirmation_counts, last_unknown_saved_time,
    current_hour, current_csv_path, attendance_today,
    \* file system: ledger files (by hour), evidence directories
    csv_files, matched_files, unknown_files,
    \* per-worker position and locals of process_frame / handle_*_face
    pc, ts, remaining, cur, tmp, ret, current_time, exc,
    \* number of boxes the worker has taken up so far
    nboxes,
    \* observation of the run (history)
    wrote, attempted, seen, log_calls, save_calls, notify_calls, log_ok, save_ok,
    confirmed_by,
    \* video_feed.py: VIOLATION_EMIT_INTERVAL, _last_violation_emit, and the
    \* position and locals (key, now) of the thread inside _emit_violation
    VIOLATION_EMIT_INTERVAL, _last_violation_emit, em_pc, em,
    \* the events offered to _emit_violation and the requests.post calls made
    offered, posted,
    \* per-worker locals of process_frame before the dispatch (cropped,
    \* embedding, dist), whether the detector call of the frame raised, and
    \* self.latest_frames
    cropped, embedding, dist, detector_failed, latest_frames,
    \* process_camera: parameters max_failures and reconnect_delay, self.running,
    \* per worker the position in the loop (lp), the capture handle (cap),
    \* fail_count and the backoff iterations done (waited); stop(): the thread
    \* it is about to join (stop_idx)
    max_failures, reconnect_delay, running, lp, cap, fail_count, waited, stop_idx,
    \* observation of the loop: empty reads in a row, backoff sleeps taken
    \* after the stop flag was set, whether the worker has read the flag as set
    empties, late_sleeps, observed,
    \* a call of one of the pure helpers (match_face, crop_face_with_buffer,
    \* the downsampling step): which one, its inputs, and what it returned
    fn, args, result,
    \* the frame_skip parameter, per worker its frame_counter and its position
    \* between the read and the store of the processed frame, and what
    \* generate_frames last read from self.latest_frames
    frame_skip, frame_counter, pp, viewed,
    \* video_feed.py with several threads inside _emit_violation:
    \* _last_violation_lock, and per thread its position and its locals
    \* (key, now, and what _should_emit_violation returned)
    _last_violation_lock, ev_pc, ev,
    \* self.capture_resolution, shared by the workers; per worker what its own
    \* capture reported at set-up, whether it is past its set-up, and whether
    \* its last frame was resized
    capture_resolution, actual, rs, resized,
    \* per worker the opened capture handles it has created and not released
    handles,
    \* streaming.py StreamManager: _processes (name -> process), _lock, the
    \* transcoder processes started so far, and per calling thread its
    \* position and its locals
    _processes, _lock, procs, sm_pc, sm,
    \* websocket_manager.py ConnectionManager: active_connections; broadcast's
    \* position and list iterator; observation of one broadcast: the list when
    \* it started, the connections it tried, the sends that failed
    active_connections, bc_pc, bc_i, bc_start, sent_to, send_failed

procVars == <<lock, attendance_log, confirmation_counts, last_unknown_saved_time,
              current_hour, current_csv_path, attendance_today>>
fsVars == <<csv_files, matched_files, unknown_files>>
workerVars == <<pc, ts, remaining, cur, tmp, ret, current_time, exc>>
eventVars == <<nboxes>>
histVars == <<wrote, attempted, seen, log_calls, save_calls, notify_calls, log_ok,
              save_ok, confirmed_by>>
cfgVars == <<required_confirmations, unknown_interval, has_on_attendance>>
emitVars == <<VIOLATION_EMIT_INTERVAL, _last_violation_emit, em_pc, em, offered, posted>>
frameVars == <<cropped, embedding, dist, detector_failed, latest_frames>>
loopVars == <<max_failures, reconnect_delay, running, lp, cap, fail_count, waited,
              stop_idx, empties, late_sleeps, observed>>
callVars == <<fn, args, result>>
pubVars == <<frame_skip, frame_counter, pp, viewed>>
gateVars == <<_last_violation_lock, ev_pc, ev>>
resVars == <<capture_resolution, actual, rs, resized>>
obsVars == <<handles>>
smVars == <<_processes, _lock, procs, sm_pc, sm>>
wsVars == <<active_connections, bc_pc, bc_i, bc_start, sent_to, send_failed>>
svcVars == <<gateVars, resVars, obsVars, smVars, wsVars>>
\* every variable but those of svcVars
coreVars == <<cfgVars, now, procVars, fsVars, workerVars, eventVars, histVars, emitVars,
              frameVars, loopVars, callVars, pubVars>>
vars == <<coreVars, svcVars>>

\* ---------------------------------------------------------------- helpers
\* dict.get(k, d)
Get(f, k, d) == IF k \in DOMAIN f THEN f[k] ELSE d

\* dict[k] = v
Put(f, k, v) == (k :> v) @@ f

\* datetime.now().strftime("%Y-%m-%d_%H"): the wall-clock hour of an instant
Hour(t) == t \div HourLen

\* f"{camera_id}_{name}_{timestamp...}.jpg"
Fname(c, name, t) == <<c, name, t>>

\* writer.writerow([name, date, time_val, camera_id])
LedgerRow(name, t, c) == [name |-> name, ts |-> t, cam |-> c]

\* rows of one label over all ledger files
RowsOf(l) ==
    UNION { { <<h, i>> : i \in { j \in 1..Len(csv_files[h]) : csv_files[h][j].name = l } }
            : h \in DOMAIN csv_files }

\* ---------------------------------------------------------------- Init
\* threads that may be inside _emit_violation at the same time
Threads == {"t1", "t2"}

\* a thread of the forwarder before its first call
NoCall == [key |-> <<"-", "-">>, now |-> 0, outcome |-> "-"]

\* a thread outside the StreamManager: no name, no StreamProcess, no list
NoLocals == [name |-> "-", proc |-> 0, names |-> <<>>, ret |-> "-", all |-> FALSE]

ProcInit ==
    /\ lock = Free
    /\ attendance_log = <<>>
    /\ confirmation_counts = <<>>
    /\ last_unknown_saved_time = <<>>
    /\ current_hour = NoPath
    /\ current_csv_path = NoPath
    /\ attendance_today = 0
    /\ csv_files = <<>>
    /\ matched_files = {}
    /\ unknown_files = {}
    /\ pc = [w \in Cameras |-> "idle"]
    /\ ts = [w \in Cameras |-> 0]
    /\ remaining = [w \in Cameras |-> 0]
    /\ cur = [w \in Cameras |-> Unknown]
    /\ tmp = [w \in Cameras |-> 0]
    /\ ret = [w \in Cameras |-> NoFile]
    /\ current_time = [w \in Cameras |-> 0]
    /\ exc = [w \in Cameras |-> FALSE]
    /\ nboxes = [w \in Cameras |-> 0]
    /\ wrote = [w \in Cameras |-> FALSE]
    /\ attempted = [w \in Cameras |-> FALSE]
    /\ seen = [l \in Labels |-> 0]
    /\ log_calls = [l \in Labels |-> 0]
    /\ save_calls = [l \in Labels |-> 0]
    /\ notify_calls = [l \in Labels |-> 0]
    /\ log_ok = [l \in Labels |-> 0]
    /\ save_ok = [l \in Labels |-> 0]
    /\ confirmed_by = <<>>
    /\ cropped = [w \in Cameras |-> NoCrop]
    /\ embedding = [w \in Cameras |-> NoEmbedding]
    /\ dist = [w \in Cameras |-> 0]
    /\ detector_failed = [w \in Cameras |-> FALSE]
    /\ latest_frames = <<>>
    /\ running = TRUE
    /\ lp = [w \in Cameras |-> "setup"]
    /\ cap = [w \in Cameras |-> "unset"]
    /\ fail_count = [w \in Cameras |-> 0]
    /\ waited = [w \in Cameras |-> 0]
    /\ stop_idx = 0
    /\ empties = [w \in Cameras |-> 0]
    /\ late_sleeps = [w \in Cameras |-> 0]
    /\ observed = [w \in Cameras |-> FALSE]
    /\ frame_counter = [w \in Cameras |-> 0]
    /\ pp = [w \in Cameras |-> "read"]
    /\ viewed = <<>>
    /\ _last_violation_lock = Free
    /\ ev_pc = [t \in Threads |-> "idle"]
    /\ ev = [t \in Threads |-> NoCall]
    /\ capture_resolution = <<>>
    /\ actual = [w \in Cameras |-> <<>>]
    /\ rs = [w \in Cameras |-> "setup"]
    /\ resized = [w \in Cameras |-> "-"]
    /\ handles = [w \in Cameras |-> 0]
    /\ _processes = <<>>
    /\ _lock = Free
    /\ procs = <<>>
    /\ sm_pc = [t \in Threads |-> "idle"]
    /\ sm = [t \in Threads |-> NoLocals]
    /\ active_connections = <<>>
    /\ bc_pc = "idle"
    /\ bc_i = 0
    /\ bc_start = <<>>
    /\ sent_to = {}
    /\ send_failed = {}

EmitInit ==
    /\ _last_violation_emit = <<>>
    /\ em_pc = "idle"
    /\ em = NoCall
    /\ offered = <<>>
    /\ posted = <<>>

\* the attendance path does not read unknown_interval
\* the call of f has returned something
Called(f) == fn = f /\ result # <<>>

\* no helper call is being looked at
CallIdle ==
    /\ fn = "-"
    /\ args = <<>>
    /\ result = <<>>

Init ==
    /\ required_confirmations \in 1..MaxConfirmations
    /\ unknown_interval = 1
    /\ has_on_attendance \in BOOLEAN
    /\ now = Epoch
    /\ max_failures = 1
    /\ reconnect_delay = 0
    /\ frame_skip = 1
    /\ ProcInit
    /\ CallIdle
    /\ VIOLATION_EMIT_INTERVAL = 1
    /\ EmitInit

\* the unknown path reads neither required_confirmations nor on_attendance
InitUnknown ==
    /\ required_confirmations = 1
    /\ unknown_interval \in 1..MaxInterval
    /\ has_on_attendance = FALSE
    /\ now = Epoch
    /\ max_failures = 1
    /\ reconnect_delay = 0
    /\ frame_skip = 1
    /\ ProcInit
    /\ CallIdle
    /\ VIOLATION_EMIT_INTERVAL = 1
    /\ EmitInit

\* ---------------------------------------------------------------- clock
Advance(limit) ==
    /\ now < limit
    /\ now' = now + 1
    /\ UNCHANGED <<frameVars, emitVars, svcVars, pubVars, callVars, loopVars, cfgVars, procVars, fsVars, workerVars, eventVars, histVars>>

Tick == Advance(MaxTime)

TickKnown == Advance(Epoch + KnownHorizon)

\* ---------------------------------------------------------------- storage
\* Outcomes of the file-system calls, chosen by the environment.
\*   ledger: where log_attendance / get_current_csv_path fails, if anywhere
\*   evidence: cv2.imwrite either writes the file, or os.makedirs / cv2 raises
\*   (caught, None returned), or imwrite returns False without raising (its
\*   result is not looked at, so the filename is returned all the same)
LedgerOutcomes == {"ok", "makedirs", "header", "append"}
SaveOutcomes == {"written", "raised", "not_written"}
NotifyOutcomes == {"ok", "raise"}

\* get_current_csv_path: [hour, path, files, ok] after the call; ok = FALSE
\* when it raised
GetCurrentCsvPath(fail) ==
    LET h == Hour(now) IN
    IF current_hour # h \/ current_csv_path = NoPath
    THEN IF fail = "makedirs"
         THEN [hour |-> h, path |-> current_csv_path, files |-> csv_files, ok |-> FALSE]
         ELSE IF h \notin DOMAIN csv_files
              THEN IF fail = "header"
                   THEN [hour |-> h, path |-> h, files |-> csv_files, ok |-> FALSE]
                   ELSE [hour |-> h, path |-> h,
                         files |-> Put(csv_files, h, <<Header>>), ok |-> TRUE]
              ELSE [hour |-> h, path |-> h, files |-> csv_files, ok |-> TRUE]
    ELSE [hour |-> current_hour, path |-> current_csv_path,
          files |-> csv_files, ok |-> TRUE]

\* log_attendance: [hour, path, files] after the call, and whether the row was
\* appended (every exception is caught and only printed)
LogAttendance(name, t, c, fail) ==
    LET g == GetCurrentCsvPath(fail) IN
    IF ~g.ok \/ fail = "append"
    THEN [hour |-> g.hour, path |-> g.path, files |-> g.files, appended |-> FALSE]
    ELSE [hour |-> g.hour, path |-> g.path,
          files |-> Put(g.files, g.path,
                        Append(Get(g.files, g.path, <<>>), LedgerRow(name, t, c))),
          appended |-> TRUE]

\* save_face_crop: the value returned
SaveFaceCrop(c, name, t, outcome) ==
    IF outcome = "raised" THEN NoFile ELSE Fname(c, name, t)

\* save_face_crop: the directory's content afterwards
SavedFiles(dir, c, name, t, outcome) ==
    IF outcome = "written" THEN dir \cup {Fname(c, name, t)} ELSE dir

\* ---------------------------------------------------------------- process_frame
\* boxes the run may still detect: MaxDetections in all, over all cameras
Budget ==
    LET Sum(f) == f["C1"] + f["C2"] IN MaxDetections - Sum(nboxes) - Sum(remaining)

\* timestamp = datetime.now(); boxes = detector(frame): n boxes
BeginFrame(w) ==
    /\ pc[w] = "idle"
    /\ \E n \in 0..Budget :
          remaining' = [remaining EXCEPT ![w] = n]
    /\ ts' = [ts EXCEPT ![w] = now]
    /\ pc' = [pc EXCEPT ![w] = "box"]
    /\ UNCHANGED <<frameVars, emitVars, svcVars, pubVars, callVars, loopVars, cfgVars, now, procVars, fsVars, cur, tmp, ret, current_time, exc,
                   eventVars, histVars>>

\* confidence = 1.0 - dist if name != "Unknown" else 0.0, in units of 1/MaxDist
Confidence(name, d) == IF name # Unknown THEN MaxDist - d ELSE 0

\* the payload handed to on_violation for the box being handled
Payload(w) ==
    [camera_id |-> w, name |-> cur[w], confidence |-> Confidence(cur[w], dist[w]),
     timestamp |-> ts[w], image_filename |-> ret[w], small_face |-> FALSE]

\* the payload of a box stopped by the size gate
SmallPayload(w) ==
    [camera_id |-> w, name |-> Unknown, confidence |-> 0, timestamp |-> now,
     image_filename |-> NoFile, small_face |-> TRUE]

\* a box whose crop is below min_face_size: on_violation(small payload),
\* no embedding, no match, continue with the next box
SmallFace(w) ==
    /\ pc[w] = "box"
    /\ remaining[w] > 0
    /\ remaining' = [remaining EXCEPT ![w] = @ - 1]
    /\ nboxes' = [nboxes EXCEPT ![w] = @ + 1]
    /\ UNCHANGED <<frameVars, emitVars, svcVars, pubVars, callVars, loopVars, cfgVars, now, procVars, fsVars, pc, ts, cur, tmp, ret,
                   current_time, exc, histVars>>

\* a box that passes the size gate and that match_face gives a gallery label:
\* image_filename = None, then handle_known_face
MatchKnown(w) ==
    /\ pc[w] = "box"
    /\ remaining[w] > 0
    /\ \E name \in Labels : cur' = [cur EXCEPT ![w] = name]
    /\ pc' = [pc EXCEPT ![w] = "hk_lock"]
    /\ remaining' = [remaining EXCEPT ![w] = @ - 1]
    /\ nboxes' = [nboxes EXCEPT ![w] = @ + 1]
    /\ UNCHANGED <<frameVars, emitVars, svcVars, pubVars, callVars, loopVars, cfgVars, now, procVars, fsVars, ts, tmp, ret, current_time, exc,
                   histVars>>

\* a box that passes the size gate and that match_face gives "Unknown" (no
\* gallery entry below the threshold, or no embedding): handle_unknown_face
MatchUnknown(w) ==
    /\ pc[w] = "box"
    /\ remaining[w] > 0
    /\ cur' = [cur EXCEPT ![w] = Unknown]
    /\ pc' = [pc EXCEPT ![w] = "hu_time"]
    /\ remaining' = [remaining EXCEPT ![w] = @ - 1]
    /\ nboxes' = [nboxes EXCEPT ![w] = @ + 1]
    /\ UNCHANGED <<frameVars, emitVars, svcVars, pubVars, callVars, loopVars, cfgVars, now, procVars, fsVars, ts, tmp, ret, current_time, exc,
                   histVars>>

\* self.latest_frames[camera_id] = processed, under the lock (process_camera,
\* lines 360-364): the frame process_frame returned is "raw" when the detector
\* call raised before any box was drawn on it, "annotated" otherwise
Published(w) ==
    Put(latest_frames, w, IF detector_failed[w] THEN "raw" ELSE "annotated")

\* all boxes of the frame handled: return frame, which the camera loop stores
EndFrame(w) ==
    /\ pc[w] = "box"
    /\ remaining[w] = 0
    /\ lock = Free
    /\ latest_frames' = Published(w)
    /\ pc' = [pc EXCEPT ![w] = "idle"]
    /\ ts' = [ts EXCEPT ![w] = 0]
    /\ UNCHANGED <<emitVars, svcVars, pubVars, callVars, loopVars, cfgVars, now, procVars, fsVars, remaining, cur, tmp, ret,
                   current_time, exc, eventVars, histVars, cropped, embedding, dist,
                   detector_failed>>

\* except Exception: print, return frame, which the camera loop stores.  No
\* payload is handed over for the box whose handling raised, nor for the
\* boxes after it.
AbortFrame(w) ==
    /\ pc[w] = "abort"
    /\ lock = Free
    /\ latest_frames' = Published(w)
    /\ detector_failed' = [detector_failed EXCEPT ![w] = FALSE]
    /\ pc' = [pc EXCEPT ![w] = "idle"]
    /\ ts' = [ts EXCEPT ![w] = 0]
    /\ cur' = [cur EXCEPT ![w] = Unknown]
    /\ tmp' = [tmp EXCEPT ![w] = 0]
    /\ ret' = [ret EXCEPT ![w] = NoFile]
    /\ wrote' = [wrote EXCEPT ![w] = FALSE]
    /\ attempted' = [attempted EXCEPT ![w] = FALSE]
    /\ UNCHANGED <<emitVars, svcVars, pubVars, callVars, loopVars, cfgVars, now, procVars, fsVars, remaining, current_time, exc,
                   eventVars, seen, log_calls, save_calls, notify_calls, log_ok, save_ok,
                   confirmed_by, cropped, embedding, dist>>

\* self.on_violation(payload) with Payload(w); an exception of the callback is
\* caught. The iteration's locals end here.
Emit(w) ==
    /\ pc[w] = "emit"
    /\ pc' = [pc EXCEPT ![w] = "box"]
    /\ cur' = [cur EXCEPT ![w] = Unknown]
    /\ tmp' = [tmp EXCEPT ![w] = 0]
    /\ ret' = [ret EXCEPT ![w] = NoFile]
    /\ current_time' = [current_time EXCEPT ![w] = 0]
    /\ wrote' = [wrote EXCEPT ![w] = FALSE]
    /\ attempted' = [attempted EXCEPT ![w] = FALSE]
    /\ UNCHANGED <<frameVars, emitVars, svcVars, pubVars, callVars, loopVars, cfgVars, now, procVars, fsVars, ts, remaining, exc, eventVars,
                   seen, log_calls, save_calls, notify_calls, log_ok, save_ok,
                   confirmed_by>>

\* ---------------------------------------------------------------- one box, step by step
\* MatchKnown, MatchUnknown and SmallFace above take a box through crop, size
\* gate, embedding and match in one step; these touch only locals of the
\* worker.  The actions below take the steps one at a time.

\* results = self.face_detector(frame)[0] raises: the handler at line 465
\* takes over before any box is looked at
DetectorFails(w) ==
    /\ pc[w] = "idle"
    /\ ts' = [ts EXCEPT ![w] = now]
    /\ detector_failed' = [detector_failed EXCEPT ![w] = TRUE]
    /\ pc' = [pc EXCEPT ![w] = "abort"]
    /\ UNCHANGED <<svcVars, pubVars, callVars, loopVars, cfgVars, now, procVars, fsVars, remaining, cur, tmp, ret,
                   current_time, exc, eventVars, histVars, emitVars, cropped,
                   embedding, dist, latest_frames>>

\* the shapes (height, width) a crop can have
Crops == (0..MaxSide) \X (0..MaxSide)

\* cropped = self.crop_face_with_buffer(frame, box)
CropFace(w) ==
    /\ pc[w] = "box"
    /\ remaining[w] > 0
    /\ \E c \in Crops : cropped' = [cropped EXCEPT ![w] = c]
    /\ remaining' = [remaining EXCEPT ![w] = @ - 1]
    /\ nboxes' = [nboxes EXCEPT ![w] = @ + 1]
    /\ pc' = [pc EXCEPT ![w] = "gate"]
    /\ UNCHANGED <<svcVars, pubVars, callVars, loopVars, cfgVars, now, procVars, fsVars, ts, cur, tmp, ret, current_time,
                   exc, histVars, emitVars, embedding, dist, detector_failed,
                   latest_frames>>

\* mutant: only a crop small in both directions is stopped
TooSmall_Both(c) == c[1] < min_face_size /\ c[2] < min_face_size

\* cropped.shape[0] < min_face_size or cropped.shape[1] < min_face_size
TooSmall(c) == c[1] < min_face_size \/ c[2] < min_face_size

\* the size gate stops the box: the small-face payload is built
SizeGate(w) ==
    /\ pc[w] = "gate"
    /\ TooSmall(cropped[w])
    /\ pc' = [pc EXCEPT ![w] = "emit_small"]
    /\ UNCHANGED <<svcVars, pubVars, callVars, loopVars, cfgVars, now, procVars, fsVars, ts, remaining, cur, tmp, ret,
                   current_time, exc, eventVars, histVars, emitVars, frameVars>>

\* self.on_violation(SmallPayload(w)); continue
EmitSmall(w) ==
    /\ pc[w] = "emit_small"
    /\ cropped' = [cropped EXCEPT ![w] = NoCrop]
    /\ pc' = [pc EXCEPT ![w] = "box"]
    /\ UNCHANGED <<svcVars, pubVars, callVars, loopVars, cfgVars, now, procVars, fsVars, ts, remaining, cur, tmp, ret,
                   current_time, exc, eventVars, histVars, emitVars, embedding, dist,
                   detector_failed, latest_frames>>

\* what get_embedding can return: None, or a vector, given by the gallery
\* label nearest to it and its cosine distance to that label
Embeddings == {NoEmbedding} \cup (Labels \X (0..MaxDist))

\* embedding = self.get_embedding(cropped), for a crop that passed the gate
GetEmbedding(w) ==
    /\ pc[w] = "gate"
    /\ ~TooSmall(cropped[w])
    /\ \E e \in Embeddings : embedding' = [embedding EXCEPT ![w] = e]
    /\ cropped' = [cropped EXCEPT ![w] = NoCrop]
    /\ pc' = [pc EXCEPT ![w] = "match"]
    /\ UNCHANGED <<svcVars, pubVars, callVars, loopVars, cfgVars, now, procVars, fsVars, ts, remaining, cur, tmp, ret,
                   current_time, exc, eventVars, histVars, emitVars, dist,
                   detector_failed, latest_frames>>

\* mutant: a missing embedding is taken for the first gallery label
MatchFace_NoneMatches(e) ==
    IF e = NoEmbedding
    THEN [name |-> "Alice", dist |-> 0]
    ELSE IF e[2] < threshold
         THEN [name |-> e[1], dist |-> e[2]]
         ELSE [name |-> Unknown, dist |-> e[2]]

\* match_face(embedding): (name, dist)
MatchFace(e) ==
    IF e = NoEmbedding
    THEN [name |-> Unknown, dist |-> MaxDist]
    ELSE IF e[2] < threshold
         THEN [name |-> e[1], dist |-> e[2]]
         ELSE [name |-> Unknown, dist |-> e[2]]

\* name, dist = self.match_face(embedding); image_filename = None; dispatch
Dispatch(w) ==
    /\ pc[w] = "match"
    /\ LET r == MatchFace(embedding[w]) IN
          /\ cur' = [cur EXCEPT ![w] = r.name]
          /\ dist' = [dist EXCEPT ![w] = r.dist]
          /\ pc' = [pc EXCEPT ![w] = IF r.name # Unknown THEN "hk_lock" ELSE "hu_time"]
    /\ embedding' = [embedding EXCEPT ![w] = NoEmbedding]
    /\ UNCHANGED <<svcVars, pubVars, callVars, loopVars, cfgVars, now, procVars, fsVars, ts, remaining, tmp, ret,
                   current_time, exc, eventVars, histVars, emitVars, cropped,
                   detector_failed, latest_frames>>

\* ---------------------------------------------------------------- the lock
\* mutant: no mutual exclusion
CanAcquire_Always(w) == TRUE

\* threading.Lock: acquirable only while no thread holds it
CanAcquire(w) == lock = Free

\* ---------------------------------------------------------------- handle_known_face
\* with self.lock:
HkAcquire(w) ==
    /\ pc[w] = "hk_lock"
    /\ CanAcquire(w)
    /\ lock' = w
    /\ pc' = [pc EXCEPT ![w] = "hk_read"]
    /\ UNCHANGED <<frameVars, emitVars, svcVars, pubVars, callVars, loopVars, cfgVars, now, attendance_log, confirmation_counts,
                   last_unknown_saved_time, current_hour, current_csv_path,
                   attendance_today, fsVars, ts, remaining, cur, tmp, ret,
                   current_time, exc, eventVars, histVars>>

\* mutant: the attendance log is not consulted
AlreadyLogged_Never(name) == FALSE

\* name in self.attendance_log
AlreadyLogged(name) == name \in DOMAIN attendance_log

\* if name not in self.attendance_log: ... self.confirmation_counts.get(name, 0)
HkRead(w) ==
    /\ pc[w] = "hk_read"
    /\ seen' = [seen EXCEPT ![cur[w]] = @ + 1]
    /\ IF AlreadyLogged(cur[w])
       THEN /\ tmp' = [tmp EXCEPT ![w] = Skip]
            /\ pc' = [pc EXCEPT ![w] = "hk_unlock"]
       ELSE /\ tmp' = [tmp EXCEPT ![w] = Get(confirmation_counts, cur[w], 0)]
            /\ pc' = [pc EXCEPT ![w] = "hk_inc"]
    /\ UNCHANGED <<frameVars, emitVars, svcVars, pubVars, callVars, loopVars, cfgVars, now, procVars, fsVars, ts, remaining, cur, ret,
                   current_time, exc, eventVars, wrote, attempted, log_calls,
                   save_calls, notify_calls, log_ok, save_ok, confirmed_by>>

\* mutant: the counter is set, not incremented
NextCount_Reset(old) == 1

\* the value stored by  confirmation_counts[name] = ... + 1
NextCount(old) == old + 1

\* self.confirmation_counts[name] = <value read> + 1
HkInc(w) ==
    /\ pc[w] = "hk_inc"
    /\ confirmation_counts' = Put(confirmation_counts, cur[w], NextCount(tmp[w]))
    /\ pc' = [pc EXCEPT ![w] = "hk_test"]
    /\ UNCHANGED <<frameVars, emitVars, svcVars, pubVars, callVars, loopVars, cfgVars, now, lock, attendance_log, last_unknown_saved_time,
                   current_hour, current_csv_path, attendance_today, fsVars, ts,
                   remaining, cur, tmp, ret, current_time, exc, eventVars, histVars>>

\* mutant: the threshold is reached one match early
Confirms_Early(name) == confirmation_counts[name] >= required_confirmations - 1

\* if self.confirmation_counts[name] >= self.parameters['required_confirmations']
Confirms(name) == confirmation_counts[name] >= required_confirmations

\* mutant: a fixed camera id is logged
LedgerCamera_Fixed(w) == "C1"

\* the camera id handed to log_attendance by the worker of camera w
LedgerCamera(w) == w

\* the confirming branch: attendance_log, log_attendance, save_face_crop,
\* stats, on_attendance, return image_filename
HkConfirm(w) ==
    /\ pc[w] = "hk_test"
    /\ Confirms(cur[w])
    /\ \E lo \in LedgerOutcomes, so \in SaveOutcomes, no \in NotifyOutcomes :
          LET name == cur[w]
              led == LogAttendance(name, ts[w], LedgerCamera(w), lo)
          IN  /\ attendance_log' = Put(attendance_log, name, ts[w])
              /\ current_hour' = led.hour
              /\ current_csv_path' = led.path
              /\ csv_files' = led.files
              /\ matched_files' = SavedFiles(matched_files, w, name, ts[w], so)
              /\ ret' = [ret EXCEPT ![w] =
                            IF has_on_attendance /\ no = "raise" THEN NoFile
                            ELSE SaveFaceCrop(w, name, ts[w], so)]
              /\ exc' = [exc EXCEPT ![w] = has_on_attendance /\ no = "raise"]
              /\ wrote' = [wrote EXCEPT ![w] = (so = "written")]
              /\ attempted' = [attempted EXCEPT ![w] = TRUE]
              /\ log_calls' = [log_calls EXCEPT ![name] = @ + 1]
              /\ log_ok' = [log_ok EXCEPT ![name] = IF led.appended THEN @ + 1 ELSE @]
              /\ save_ok' = [save_ok EXCEPT ![name] =
                                IF so = "written" THEN @ + 1 ELSE @]
              /\ save_calls' = [save_calls EXCEPT ![name] = @ + 1]
              /\ notify_calls' = [notify_calls EXCEPT ![name] =
                                     IF has_on_attendance THEN @ + 1 ELSE @]
              /\ confirmed_by' = Put(confirmed_by, name, w)
    /\ attendance_today' = attendance_today + 1
    /\ pc' = [pc EXCEPT ![w] = "hk_unlock"]
    /\ UNCHANGED <<frameVars, emitVars, svcVars, pubVars, callVars, loopVars, cfgVars, now, lock, confirmation_counts, last_unknown_saved_time,
                   unknown_files, ts, remaining, cur, tmp, current_time, eventVars,
                   seen>>

\* the count is still below the threshold: fall through to return None
HkCounting(w) ==
    /\ pc[w] = "hk_test"
    /\ ~Confirms(cur[w])
    /\ pc' = [pc EXCEPT ![w] = "hk_unlock"]
    /\ UNCHANGED <<frameVars, emitVars, svcVars, pubVars, callVars, loopVars, cfgVars, now, procVars, fsVars, ts, remaining, cur, tmp, ret,
                   current_time, exc, eventVars, histVars>>

\* leaving the with block; an exception of on_attendance propagates to
\* process_frame's handler, which abandons the rest of the frame
HkRelease(w) ==
    /\ pc[w] = "hk_unlock"
    /\ lock' = Free
    /\ IF exc[w]
       THEN /\ remaining' = [remaining EXCEPT ![w] = 0]
            /\ pc' = [pc EXCEPT ![w] = "abort"]
       ELSE /\ remaining' = remaining
            /\ pc' = [pc EXCEPT ![w] = "emit"]
    /\ exc' = [exc EXCEPT ![w] = FALSE]
    /\ UNCHANGED <<frameVars, emitVars, svcVars, pubVars, callVars, loopVars, cfgVars, now, attendance_log, confirmation_counts,
                   last_unknown_saved_time, current_hour, current_csv_path,
                   attendance_today, fsVars, ts, cur, tmp, ret, current_time,
                   eventVars, histVars>>

\* ---------------------------------------------------------------- handle_unknown_face
\* current_time = time.time()
HuTime(w) ==
    /\ pc[w] = "hu_time"
    /\ current_time' = [current_time EXCEPT ![w] = now]
    /\ pc' = [pc EXCEPT ![w] = "hu_lock"]
    /\ UNCHANGED <<frameVars, emitVars, svcVars, pubVars, callVars, loopVars, cfgVars, now, procVars, fsVars, ts, remaining, cur, tmp, ret,
                   exc, eventVars, histVars>>

\* with self.lock:
HuAcquire(w) ==
    /\ pc[w] = "hu_lock"
    /\ CanAcquire(w)
    /\ lock' = w
    /\ pc' = [pc EXCEPT ![w] = "hu_check"]
    /\ UNCHANGED <<frameVars, emitVars, svcVars, pubVars, callVars, loopVars, cfgVars, now, attendance_log, confirmation_counts,
                   last_unknown_saved_time, current_hour, current_csv_path,
                   attendance_today, fsVars, ts, remaining, cur, tmp, ret,
                   current_time, exc, eventVars, histVars>>

\* mutant: the cooldown ends at exactly the interval
CooldownOver_AtInterval(c, t) ==
    IF c \notin DOMAIN last_unknown_saved_time
    THEN TRUE
    ELSE t - last_unknown_saved_time[c] >= unknown_interval

\* mutant: one cooldown for all cameras
CooldownOver_Shared(c, t) ==
    \A k \in DOMAIN last_unknown_saved_time :
        t - last_unknown_saved_time[k] > unknown_interval

\* camera_id not in self.last_unknown_saved_time or
\* current_time - self.last_unknown_saved_time[camera_id] > unknown_interval
CooldownOver(c, t) ==
    IF c \notin DOMAIN last_unknown_saved_time
    THEN TRUE
    ELSE t - last_unknown_saved_time[c] > unknown_interval

\* the cooldown is over: save_face_crop, last_unknown_saved_time, return
HuSave(w) ==
    /\ pc[w] = "hu_check"
    /\ CooldownOver(w, current_time[w])
    /\ \E so \in SaveOutcomes :
          /\ unknown_files' = SavedFiles(unknown_files, w, Unknown, ts[w], so)
          /\ ret' = [ret EXCEPT ![w] = SaveFaceCrop(w, Unknown, ts[w], so)]
          /\ wrote' = [wrote EXCEPT ![w] = (so = "written")]
    /\ attempted' = [attempted EXCEPT ![w] = TRUE]
    /\ last_unknown_saved_time' = Put(last_unknown_saved_time, w, current_time[w])
    /\ pc' = [pc EXCEPT ![w] = "hu_unlock"]
    /\ UNCHANGED <<frameVars, emitVars, svcVars, pubVars, callVars, loopVars, cfgVars, now, lock, attendance_log, confirmation_counts,
                   current_hour, current_csv_path, attendance_today, csv_files,
                   matched_files, ts, remaining, cur, tmp, current_time, exc,
                   eventVars, seen, log_calls, save_calls, notify_calls, log_ok, save_ok,
                   confirmed_by>>

\* the cooldown is running: return None
HuSkip(w) ==
    /\ pc[w] = "hu_check"
    /\ ~CooldownOver(w, current_time[w])
    /\ pc' = [pc EXCEPT ![w] = "hu_unlock"]
    /\ UNCHANGED <<frameVars, emitVars, svcVars, pubVars, callVars, loopVars, cfgVars, now, procVars, fsVars, ts, remaining, cur, tmp, ret,
                   current_time, exc, eventVars, histVars>>

\* leaving the with block
HuRelease(w) ==
    /\ pc[w] = "hu_unlock"
    /\ lock' = Free
    /\ pc' = [pc EXCEPT ![w] = "emit"]
    /\ UNCHANGED <<frameVars, emitVars, svcVars, pubVars, callVars, loopVars, cfgVars, now, attendance_log, confirmation_counts,
                   last_unknown_saved_time, current_hour, current_csv_path,
                   attendance_today, fsVars, ts, remaining, cur, tmp, ret,
                   current_time, exc, eventVars, histVars>>

\* ---------------------------------------------------------------- specifications
\* The attendance path: camera workers whose boxes match gallery labels.
KnownWorker(w) ==
    \/ BeginFrame(w)
    \/ MatchKnown(w)
    \/ EndFrame(w)
    \/ AbortFrame(w)
    \/ Emit(w)
    \/ HkAcquire(w)
    \/ HkRead(w)
    \/ HkInc(w)
    \/ HkConfirm(w)
    \/ HkCounting(w)
    \/ HkRelease(w)

Next == TickKnown \/ \E w \in Cameras : KnownWorker(w)

Spec == Init /\ [][Next]_vars

\* The attendance path with required_confirmations configured from 0 up, and
\* an on_attendance callback that may raise.
InitTable ==
    /\ required_confirmations \in 0..(MaxConfirmations - 1)
    /\ unknown_interval = 1
    /\ has_on_attendance = TRUE
    /\ now = Epoch
    /\ max_failures = 1
    /\ reconnect_delay = 0
    /\ frame_skip = 1
    /\ ProcInit
    /\ CallIdle
    /\ VIOLATION_EMIT_INTERVAL = 1
    /\ EmitInit

SpecTable == InitTable /\ [][Next]_vars

\* The unknown path: camera workers whose boxes are too small or match nobody.
UnknownWorker(w) ==
    \/ BeginFrame(w)
    \/ SmallFace(w)
    \/ MatchUnknown(w)
    \/ EndFrame(w)
    \/ Emit(w)
    \/ HuTime(w)
    \/ HuAcquire(w)
    \/ HuSave(w)
    \/ HuSkip(w)
    \/ HuRelease(w)

NextUnknown == Tick \/ \E w \in Cameras : UnknownWorker(w)

SpecUnknown == InitUnknown /\ [][NextUnknown]_vars

\* One camera worker, every box taken step by step: any crop, any embedding
\* result, a detector that may raise.
FrameWorker(w) ==
    \/ BeginFrame(w)
    \/ DetectorFails(w)
    \/ CropFace(w)
    \/ SizeGate(w)
    \/ EmitSmall(w)
    \/ GetEmbedding(w)
    \/ Dispatch(w)
    \/ EndFrame(w)
    \/ AbortFrame(w)
    \/ Emit(w)
    \/ HkAcquire(w)
    \/ HkRead(w)
    \/ HkInc(w)
    \/ HkConfirm(w)
    \/ HkCounting(w)
    \/ HkRelease(w)
    \/ HuTime(w)
    \/ HuAcquire(w)
    \/ HuSave(w)
    \/ HuSkip(w)
    \/ HuRelease(w)

InitFrame ==
    /\ required_confirmations = 2
    /\ unknown_interval = 1
    /\ has_on_attendance = FALSE
    /\ now = Epoch
    /\ max_failures = 1
    /\ reconnect_delay = 0
    /\ frame_skip = 1
    /\ ProcInit
    /\ CallIdle
    /\ VIOLATION_EMIT_INTERVAL = 1
    /\ EmitInit

NextFrame == Tick \/ FrameWorker("C1")

SpecFrame == InitFrame /\ [][NextFrame]_vars

\* the two unknown-path workers of SpecUnknown under one unknown_interval
SpecCooldown == InitFrame /\ [][NextUnknown]_vars

\* ---------------------------------------------------------------- _emit_violation
\* EMIT_VIOLATIONS = os.getenv("VIDEO_FEED_EMIT_VIOLATIONS", "1") != "0"
EMIT_VIOLATIONS == TRUE

\* the (camera, label) keys of the last-emission table
Keys == Cameras \X (Labels \cup {Unknown})

\* mutant: an event exactly one interval after the last is still too soon
TooSoon_Inclusive(t, last) == t - last <= VIOLATION_EMIT_INTERVAL

\* mutant: only the size of the difference is compared
TooSoon_Magnitude(t, last) ==
    (IF t < last THEN last - t ELSE t - last) < VIOLATION_EMIT_INTERVAL

\* if now - last < VIOLATION_EMIT_INTERVAL
TooSoon(t, last) == t - last < VIOLATION_EMIT_INTERVAL

\* mutant: a dropped event restarts the interval
TableAfterDrop_Refresh(key, t) == Put(_last_violation_emit, key, t)

\* return False: the table as a dropped event leaves it
TableAfterDrop(key, t) == _last_violation_emit

\* _last_violation_emit[key] = now
TableAfterPass(key, t) == Put(_last_violation_emit, key, t)

\* requests.post: answered 200, answered with another status, or raised
PostOutcomes == {"ok", "status", "raise"}

\* _emit_violation(data) is entered: now = time.time(), name, camera_id
EmitOffer ==
    /\ em_pc = "idle"
    /\ Len(offered) < MaxOffers
    /\ \E key \in Keys :
          /\ em' = [key |-> key, now |-> now, outcome |-> "-"]
          /\ offered' = Append(offered, [key |-> key, time |-> now])
    /\ em_pc' = IF EMIT_VIOLATIONS THEN "gate" ELSE "idle"
    /\ UNCHANGED <<frameVars, svcVars, pubVars, callVars, loopVars, cfgVars, now, procVars, fsVars, workerVars, eventVars, histVars,
                   VIOLATION_EMIT_INTERVAL, _last_violation_emit, posted>>

\* _should_emit_violation returns False: _emit_violation returns
EmitDrop ==
    /\ em_pc = "gate"
    /\ TooSoon(em.now, Get(_last_violation_emit, em.key, 0))
    /\ _last_violation_emit' = TableAfterDrop(em.key, em.now)
    /\ em_pc' = "idle"
    /\ UNCHANGED <<frameVars, svcVars, pubVars, callVars, loopVars, cfgVars, now, procVars, fsVars, workerVars, eventVars, histVars,
                   VIOLATION_EMIT_INTERVAL, em, offered, posted>>

\* _should_emit_violation records now and returns True
EmitPass ==
    /\ em_pc = "gate"
    /\ ~TooSoon(em.now, Get(_last_violation_emit, em.key, 0))
    /\ _last_violation_emit' = TableAfterPass(em.key, em.now)
    /\ em_pc' = "post"
    /\ UNCHANGED <<frameVars, svcVars, pubVars, callVars, loopVars, cfgVars, now, procVars, fsVars, workerVars, eventVars, histVars,
                   VIOLATION_EMIT_INTERVAL, em, offered, posted>>

\* requests.post(...), its status or exception only logged
EmitPost ==
    /\ em_pc = "post"
    /\ \E o \in PostOutcomes : em' = [em EXCEPT !.outcome = o]
    /\ posted' = Append(posted, [key |-> em.key, time |-> em.now])
    /\ em_pc' = "idle"
    /\ UNCHANGED <<frameVars, svcVars, pubVars, callVars, loopVars, cfgVars, now, procVars, fsVars, workerVars, eventVars, histVars,
                   VIOLATION_EMIT_INTERVAL, _last_violation_emit, offered>>

\* ---------------------------------------------------------------- _emit_violation, several callers
\* what the steps of a forwarder thread leave alone besides the forwarder's
\* own state
gateRest == <<cfgVars, now, procVars, fsVars, workerVars, eventVars, histVars,
              frameVars, loopVars, callVars, pubVars, VIOLATION_EMIT_INTERVAL, em_pc, em,
              resVars, obsVars, smVars, wsVars>>

\* the keys of one camera
CameraKeys(c) == { k \in Keys : k[1] = c }

\* thread t enters _emit_violation(data): now = time.time(), name, camera_id
\* (lines 67-72), before the lock is asked for
EvEnter(t) ==
    /\ ev_pc[t] = "idle"
    /\ Len(posted) + Cardinality({u \in Threads : ev_pc[u] # "idle"}) < MaxOffers
    /\ \E key \in CameraKeys("C1") :
          ev' = [ev EXCEPT ![t] = [key |-> key, now |-> now, outcome |-> "-"]]
    /\ ev_pc' = [ev_pc EXCEPT ![t] = IF EMIT_VIOLATIONS THEN "lock" ELSE "idle"]
    /\ UNCHANGED <<gateRest, _last_violation_emit, offered, posted, _last_violation_lock>>

\* with _last_violation_lock:
EvAcquire(t) ==
    /\ ev_pc[t] = "lock"
    /\ _last_violation_lock = Free
    /\ _last_violation_lock' = t
    /\ ev_pc' = [ev_pc EXCEPT ![t] = "gate"]
    /\ UNCHANGED <<gateRest, _last_violation_emit, offered, posted, ev>>

\* lines 59-63 under the lock, with the now read at line 70
EvGate(t) ==
    /\ ev_pc[t] = "gate"
    /\ IF TooSoon(ev[t].now, Get(_last_violation_emit, ev[t].key, 0))
       THEN /\ _last_violation_emit' = TableAfterDrop(ev[t].key, ev[t].now)
            /\ ev' = [ev EXCEPT ![t].outcome = "drop"]
       ELSE /\ _last_violation_emit' = TableAfterPass(ev[t].key, ev[t].now)
            /\ ev' = [ev EXCEPT ![t].outcome = "pass"]
    /\ ev_pc' = [ev_pc EXCEPT ![t] = "unlock"]
    /\ UNCHANGED <<gateRest, offered, posted, _last_violation_lock>>

\* leaving the with block: return to _emit_violation, which returns at once
\* on False
EvRelease(t) ==
    /\ ev_pc[t] = "unlock"
    /\ _last_violation_lock' = Free
    /\ ev_pc' = [ev_pc EXCEPT ![t] = IF ev[t].outcome = "pass" THEN "post" ELSE "idle"]
    /\ ev' = [ev EXCEPT ![t] = IF ev[t].outcome = "pass" THEN @ ELSE NoCall]
    /\ UNCHANGED <<gateRest, _last_violation_emit, offered, posted>>

\* requests.post(...), outside the lock; the call's locals end here
EvPost(t) ==
    /\ ev_pc[t] = "post"
    /\ posted' = Append(posted, [key |-> ev[t].key, time |-> ev[t].now])
    /\ ev_pc' = [ev_pc EXCEPT ![t] = "idle"]
    /\ ev' = [ev EXCEPT ![t] = NoCall]
    /\ UNCHANGED <<gateRest, _last_violation_emit, offered, _last_violation_lock>>

EmitThread(t) ==
    \/ EvEnter(t)
    \/ EvAcquire(t)
    \/ EvGate(t)
    \/ EvRelease(t)
    \/ EvPost(t)

\* The forwarder as wired by get_processor: one camera worker calls it, one
\* event at a time.
InitEmit ==
    /\ required_confirmations = 1
    /\ unknown_interval = 1
    /\ has_on_attendance = FALSE
    /\ now = Epoch
    /\ max_failures = 1
    /\ reconnect_delay = 0
    /\ frame_skip = 1
    /\ ProcInit
    /\ CallIdle
    /\ VIOLATION_EMIT_INTERVAL \in 1..MaxWindow
    /\ EmitInit

NextEmit == Tick \/ EmitOffer \/ EmitDrop \/ EmitPass \/ EmitPost

SpecEmit == InitEmit /\ [][NextEmit]_vars

\* Several threads inside _emit_violation at once, any keys.
NextGate == Tick \/ \E t \in Threads : EmitThread(t)

SpecGate == InitEmit /\ [][NextGate]_vars

\* ---------------------------------------------------------------- inference/main.py
\* cameras = {"C1": rtsp_url}: the one camera of the standalone worker
MainCameras == {"C1"}

\* "" as an image_path
EmptyPath == <<"">>

\* the DetectionEvents process_frame can hand to on_violation at time t: a
\* gallery label or Unknown, with the evidence filename or None
DetectionEvents(t) ==
    UNION { { [camera_id |-> c, name |-> n, timestamp |-> t, image_filename |-> f] :
                f \in {NoFile, Fname(c, n, t)} } :
            c \in MainCameras, n \in Labels \cup {Unknown} }

\* on_violation, lines 16-29: the filename of the event or, when it has none,
\* one constructed from camera, name and timestamp; camera_id is the literal 1
MainPayload(data) ==
    LET image_filename ==
            IF data.image_filename # NoFile
            THEN data.image_filename
            ELSE Fname(data.camera_id, data.name, data.timestamp)
    IN [app_id |-> 1, camera_id |-> 1, details |-> data,
        image_path |-> IF image_filename # NoFile THEN image_filename ELSE EmptyPath]

\* on_violation(data) is entered and the payload built
MainOffer ==
    /\ em_pc = "idle"
    /\ Len(offered) < MaxOffers
    /\ \E data \in DetectionEvents(now) :
          /\ em' = [key |-> <<data.camera_id, data.name>>, now |-> now,
                    outcome |-> "-", payload |-> MainPayload(data)]
          /\ offered' = Append(offered,
                               [key |-> <<data.camera_id, data.name>>, time |-> now])
    /\ em_pc' = "main_post"
    /\ UNCHANGED <<frameVars, svcVars, pubVars, callVars, loopVars, cfgVars, now, procVars, fsVars, workerVars, eventVars, histVars,
                   VIOLATION_EMIT_INTERVAL, _last_violation_emit, posted>>

\* requests.post(...), its status or exception only printed
MainPost ==
    /\ em_pc = "main_post"
    /\ \E o \in PostOutcomes : em' = [em EXCEPT !.outcome = o]
    /\ posted' = Append(posted, [key |-> em.key, time |-> em.now, payload |-> em.payload])
    /\ em_pc' = "idle"
    /\ UNCHANGED <<frameVars, svcVars, pubVars, callVars, loopVars, cfgVars, now, procVars, fsVars, workerVars, eventVars, histVars,
                   VIOLATION_EMIT_INTERVAL, _last_violation_emit, offered>>

\* The standalone worker's callback, called by its one camera worker.  main.py
\* configures no interval; VIOLATION_EMIT_INTERVAL is here only the interval
\* the forwards are measured against.
NextMain == Tick \/ MainOffer \/ MainPost

SpecMain == InitEmit /\ [][NextMain]_vars

\* ---------------------------------------------------------------- on_violation = _emit_violation
\* process_frame lines 446-463 with the callback get_processor wires in: the
\* payload of the box is handed to _emit_violation in the worker's own
\* thread, which drops it inside the interval of its (camera, name) key and
\* posts it otherwise, image_path being the filename or "" (56-93)
ForwardEvent(w) ==
    /\ pc[w] = "emit"
    /\ LET data == Payload(w)
           key == <<data.camera_id, data.name>>
       IN  IF TooSoon(now, Get(_last_violation_emit, key, 0))
           THEN /\ _last_violation_emit' = TableAfterDrop(key, now)
                /\ posted' = posted
           ELSE /\ _last_violation_emit' = TableAfterPass(key, now)
                /\ posted' = Append(posted,
                       [key |-> key, time |-> now,
                        image_path |-> IF data.image_filename = NoFile
                                       THEN EmptyPath ELSE data.image_filename])
    /\ pc' = [pc EXCEPT ![w] = "box"]
    /\ cur' = [cur EXCEPT ![w] = Unknown]
    /\ tmp' = [tmp EXCEPT ![w] = 0]
    /\ ret' = [ret EXCEPT ![w] = NoFile]
    /\ current_time' = [current_time EXCEPT ![w] = 0]
    /\ wrote' = [wrote EXCEPT ![w] = FALSE]
    /\ attempted' = [attempted EXCEPT ![w] = FALSE]
    /\ UNCHANGED <<frameVars, svcVars, pubVars, callVars, loopVars, cfgVars, now, procVars, fsVars, ts,
                   remaining, exc, eventVars, seen, log_calls, save_calls, notify_calls,
                   log_ok, save_ok, confirmed_by, VIOLATION_EMIT_INTERVAL, em_pc, em,
                   offered>>

\* the one camera of get_processor, its boxes matching gallery labels
NextForward ==
    \/ TickKnown
    \/ BeginFrame("C1") \/ MatchKnown("C1") \/ EndFrame("C1") \/ AbortFrame("C1")
    \/ ForwardEvent("C1")
    \/ HkAcquire("C1") \/ HkRead("C1") \/ HkInc("C1") \/ HkConfirm("C1")
    \/ HkCounting("C1") \/ HkRelease("C1")

SpecForward == Init /\ [][NextForward]_vars

\* ---------------------------------------------------------------- process_camera
\* everything outside the camera loop and stop()
restVars == <<cfgVars, now, procVars, fsVars, workerVars, eventVars, histVars, emitVars,
              frameVars, callVars, pubVars, svcVars>>

\* the same without svcVars
coreRest == <<cfgVars, now, procVars, fsVars, workerVars, eventVars, histVars, emitVars,
              frameVars, callVars, pubVars>>

\* and what the steps that open or release a handle leave alone
openRest == <<coreRest, gateVars, resVars, smVars, wsVars>>

\* cv2.VideoCapture(...): the handle comes back opened or not opened
OpenOutcomes == {"open", "closed"}

\* the worker's opened handles after an open with outcome o, the variable
\* cap being bound to the new handle without a release of the old one
Opened(n, o) == IF o = "open" THEN n + 1 ELSE n

\* lines 211-293: the first open and the resolution set-up; fail_count = 0.
\* The open returns a handle, opened or not; or it raises inside the try of
\* lines 216-229, and the open repeated by the handler at line 232 is outside
\* every try: when that one raises too the thread ends there.
Setup(w) ==
    /\ lp[w] = "setup"
    /\ \/ /\ \E o \in OpenOutcomes :
                /\ cap' = [cap EXCEPT ![w] = o]
                /\ handles' = [handles EXCEPT ![w] = Opened(@, o)]
          /\ lp' = [lp EXCEPT ![w] = "while"]
       \/ /\ cap' = cap
          /\ handles' = handles
          /\ lp' = [lp EXCEPT ![w] = "died"]
    /\ UNCHANGED <<openRest, max_failures, reconnect_delay, running, fail_count, waited,
                   stop_idx, empties, late_sleeps, observed>>

\* positions of a thread that is no longer alive
Ended == {"exited", "died"}

\* mutant: the flag is never looked at
TestRunning_Blind(w, at, go) ==
    /\ lp[w] = at
    /\ lp' = [lp EXCEPT ![w] = go]
    /\ observed' = observed
    /\ UNCHANGED <<restVars, max_failures, reconnect_delay, running, cap, fail_count,
                   stop_idx, empties, late_sleeps>>

\* a test of self.running that leads to `go` when it is set and out of the
\* loop when it is not
TestRunning(w, at, go) ==
    /\ lp[w] = at
    /\ lp' = [lp EXCEPT ![w] = IF running THEN go ELSE "cleanup"]
    /\ observed' = [observed EXCEPT ![w] = ~running]
    /\ UNCHANGED <<restVars, max_failures, reconnect_delay, running, cap, fail_count,
                   stop_idx, empties, late_sleeps>>

\* while self.running:
LoopTest(w) == TestRunning(w, "while", "check") /\ waited' = waited

\* if cap is None or not cap.isOpened():
CheckCap(w) ==
    /\ lp[w] = "check"
    /\ lp' = [lp EXCEPT ![w] = IF cap[w] # "open" THEN "closed_test" ELSE "read"]
    /\ UNCHANGED <<restVars, max_failures, reconnect_delay, running, cap, fail_count,
                   waited, stop_idx, empties, late_sleeps, observed>>

\* line 298: if not self.running: break; else the backoff loop starts
ClosedTest(w) ==
    /\ TestRunning(w, "closed_test", "backoff")
    /\ waited' = [waited EXCEPT ![w] = 0]

\* mutant: the backoff loop does not look at the flag
BackoffSeesStop_Never(r) == FALSE

\* line 303: if not self.running: break
BackoffSeesStop(r) == ~r

\* for _ in range(int(reconnect_delay)): if not self.running: break
BackoffTest(w) ==
    /\ lp[w] = "backoff"
    /\ IF waited[w] < reconnect_delay
       THEN /\ lp' = [lp EXCEPT ![w] =
                         IF BackoffSeesStop(running) THEN "after_backoff" ELSE "sleep"]
            /\ observed' = [observed EXCEPT ![w] = BackoffSeesStop(running)]
       ELSE /\ lp' = [lp EXCEPT ![w] = "after_backoff"]
            /\ observed' = observed
    /\ UNCHANGED <<restVars, max_failures, reconnect_delay, running, cap, fail_count,
                   waited, stop_idx, empties, late_sleeps>>

\* time.sleep(1)
BackoffSleep(w) ==
    /\ lp[w] = "sleep"
    /\ waited' = [waited EXCEPT ![w] = @ + 1]
    /\ late_sleeps' = [late_sleeps EXCEPT ![w] = IF running THEN @ ELSE @ + 1]
    /\ lp' = [lp EXCEPT ![w] = "backoff"]
    /\ UNCHANGED <<restVars, max_failures, reconnect_delay, running, cap, fail_count,
                   stop_idx, empties, observed>>

\* line 306: if not self.running: break
AfterBackoffGo(r) == IF r THEN "open" ELSE "cleanup"

AfterBackoff(w) ==
    /\ lp[w] = "after_backoff"
    /\ lp' = [lp EXCEPT ![w] = AfterBackoffGo(running)]
    /\ observed' = [observed EXCEPT ![w] = @ \/ ~running]
    /\ UNCHANGED <<restVars, max_failures, reconnect_delay, running, cap, fail_count,
                   waited, stop_idx, empties, late_sleeps>>

\* cap = cv2.VideoCapture(feed_path); continue -- or the call raises
Reopen(w) ==
    /\ lp[w] = "open"
    /\ \/ /\ \E o \in OpenOutcomes :
                /\ cap' = [cap EXCEPT ![w] = o]
                /\ handles' = [handles EXCEPT ![w] = Opened(@, o)]
          /\ lp' = [lp EXCEPT ![w] = "while"]
       \/ /\ cap' = cap
          /\ handles' = handles
          /\ lp' = [lp EXCEPT ![w] = "except"]
    /\ UNCHANGED <<openRest, max_failures, reconnect_delay, running, fail_count, waited,
                   stop_idx, empties, late_sleeps, observed>>

\* mutant: a frame read leaves the failure count alone
AfterGoodRead_Keep(fc) == fc

\* line 322: fail_count = 0
AfterGoodRead(fc) == 0

\* ret, frame = cap.read() gives a frame
ReadFrame(w) ==
    /\ lp[w] = "read"
    /\ fail_count' = [fail_count EXCEPT ![w] = AfterGoodRead(@)]
    /\ empties' = [empties EXCEPT ![w] = 0]
    /\ lp' = [lp EXCEPT ![w] = "read_test"]
    /\ UNCHANGED <<restVars, max_failures, reconnect_delay, running, cap, waited,
                   stop_idx, late_sleeps, observed>>

\* cap.read() gives nothing: fail_count += 1; at max_failures release the
\* handle, cap = None, fail_count = 0; sleep(0.5); continue
ReadEmpty(w) ==
    /\ lp[w] = "read"
    /\ IF fail_count[w] + 1 >= max_failures
       THEN /\ cap' = [cap EXCEPT ![w] = "none"]
            /\ handles' = [handles EXCEPT ![w] = @ - 1]
            /\ fail_count' = [fail_count EXCEPT ![w] = 0]
            /\ empties' = [empties EXCEPT ![w] = 0]
       ELSE /\ cap' = cap
            /\ handles' = handles
            /\ fail_count' = [fail_count EXCEPT ![w] = @ + 1]
            /\ empties' = [empties EXCEPT ![w] = @ + 1]
    /\ lp' = [lp EXCEPT ![w] = "while"]
    /\ UNCHANGED <<openRest, max_failures, reconnect_delay, running, waited, stop_idx,
                   late_sleeps, observed>>

\* cap.read() raises
ReadRaises(w) ==
    /\ lp[w] = "read"
    /\ lp' = [lp EXCEPT ![w] = "except"]
    /\ UNCHANGED <<restVars, max_failures, reconnect_delay, running, cap, fail_count,
                   waited, stop_idx, empties, late_sleeps, observed>>

\* line 340: if not self.running: break
ReadTest(w) == TestRunning(w, "read_test", "frame") /\ waited' = waited

\* lines 344-364: the frame is skipped (frame_counter % frame_skip), or
\* process_frame handles it and it is stored, or resizing it raises
HandleFrame(w) ==
    /\ lp[w] = "frame"
    /\ \E o \in {"while", "except"} : lp' = [lp EXCEPT ![w] = o]
    /\ UNCHANGED <<restVars, max_failures, reconnect_delay, running, cap, fail_count,
                   waited, stop_idx, empties, late_sleeps, observed>>

\* lines 367-371: if not self.running: break; time.sleep(1)
AfterExceptGo(r) == IF r THEN "while" ELSE "cleanup"

Except(w) ==
    /\ lp[w] = "except"
    /\ lp' = [lp EXCEPT ![w] = AfterExceptGo(running)]
    /\ observed' = [observed EXCEPT ![w] = ~running]
    /\ UNCHANGED <<restVars, max_failures, reconnect_delay, running, cap, fail_count,
                   waited, stop_idx, empties, late_sleeps>>

\* mutant: the clean-up releases nothing
AfterCleanup_Keep(c) == c

\* lines 374-376: if cap and cap.isOpened(): cap.release()
AfterCleanup(c) == IF c = "open" THEN "closed" ELSE c

\* lines 373-377: release the handle if it is open; the thread ends
Cleanup(w) ==
    /\ lp[w] = "cleanup"
    /\ cap' = [cap EXCEPT ![w] = AfterCleanup(@)]
    /\ handles' = [handles EXCEPT ![w] = IF AfterCleanup(cap[w]) # cap[w] THEN @ - 1 ELSE @]
    /\ lp' = [lp EXCEPT ![w] = "exited"]
    /\ UNCHANGED <<openRest, max_failures, reconnect_delay, running, fail_count, waited,
                   stop_idx, empties, late_sleeps, observed>>

\* one step of the thread that runs process_camera for camera w
CameraLoop(w) ==
    \/ Setup(w) \/ LoopTest(w) \/ CheckCap(w) \/ ClosedTest(w)
    \/ BackoffTest(w) \/ BackoffSleep(w) \/ AfterBackoff(w) \/ Reopen(w)
    \/ ReadFrame(w) \/ ReadEmpty(w) \/ ReadRaises(w) \/ ReadTest(w)
    \/ HandleFrame(w) \/ Except(w) \/ Cleanup(w)

\* ---------------------------------------------------------------- stop
\* self.camera_threads in insertion order
JoinOrder == <<"C1", "C2">>

Returned == Len(JoinOrder) + 1

\* mutant: stop() leaves the flag set
StopFlag_Stays == TRUE

\* self.running = False
StopFlag == FALSE

\* stop() is called: the flag is cleared, nothing else
StopCall ==
    /\ stop_idx = 0
    /\ running' = StopFlag
    /\ stop_idx' = 1
    /\ UNCHANGED <<restVars, max_failures, reconnect_delay, lp, cap, fail_count, waited,
                   empties, late_sleeps, observed>>

\* the thread is not alive (no join), or join(timeout=2.0) returns because
\* it ended
JoinEnded ==
    /\ stop_idx \in 1..Len(JoinOrder)
    /\ lp[JoinOrder[stop_idx]] \in Ended
    /\ stop_idx' = stop_idx + 1
    /\ UNCHANGED <<restVars, max_failures, reconnect_delay, running, lp, cap, fail_count,
                   waited, empties, late_sleeps, observed>>

\* join(timeout=2.0) returns with the thread still alive: a warning is
\* printed and the next thread is waited for
JoinTimeout ==
    /\ stop_idx \in 1..Len(JoinOrder)
    /\ lp[JoinOrder[stop_idx]] \notin Ended
    /\ stop_idx' = stop_idx + 1
    /\ UNCHANGED <<restVars, max_failures, reconnect_delay, running, lp, cap, fail_count,
                   waited, empties, late_sleeps, observed>>

Stop == StopCall \/ JoinEnded \/ JoinTimeout

\* process_camera's parameters, as given to start_processing
InitCamera ==
    /\ required_confirmations = 1
    /\ unknown_interval = 1
    /\ has_on_attendance = FALSE
    /\ now = Epoch
    /\ max_failures \in 1..MaxFailures
    /\ reconnect_delay \in 0..MaxDelay
    /\ frame_skip = 1
    /\ ProcInit
    /\ CallIdle
    /\ VIOLATION_EMIT_INTERVAL = 1
    /\ EmitInit

NextCamera == (\E w \in Cameras : CameraLoop(w)) \/ Stop

SpecCamera == InitCamera /\ [][NextCamera]_vars

\* every thread that can take a step takes one; a join ends, by the
\* thread's end or by its timeout
SpecCameraLive ==
    /\ SpecCamera
    /\ \A w \in Cameras : WF_vars(CameraLoop(w))
    /\ WF_vars(JoinEnded \/ JoinTimeout)

\* ---------------------------------------------------------------- match_face
\* embedding vectors: along one axis, of length one or two
Vectors == {<<1, 0>>, <<0, 1>>, <<-1, 0>>, <<2, 0>>}

\* names stored in the gallery file
GalleryLabels == {"Alice", "Bob"}

\* self.parameters['threshold'], on the scale of CosDist
Thresholds == 0..3

\* sklearn cosine_distances: 1 - a.b / (|a| |b|); the vectors lie along an
\* axis, so their Euclidean length is the sum of the absolute components
CosDist(a, b) ==
    LET Abs(n) == IF n < 0 THEN -n ELSE n
        Norm(v) == Abs(v[1]) + Abs(v[2])
        Dot == a[1] * b[1] + a[2] * b[2]
    IN  1 - (Dot \div (Norm(a) * Norm(b)))

\* cosine_distances(embedding.reshape(1, -1), self.db_embeddings).flatten()
Dists(e, db_embeddings) ==
    [i \in 1..Len(db_embeddings) |-> CosDist(e, db_embeddings[i])]

RECURSIVE ArgMinFrom(_, _, _)
\* np.argmin scanning from index i with the best index so far: a later
\* element displaces the best only when strictly smaller
ArgMinFrom(d, i, best) ==
    IF i > Len(d) THEN best
    ELSE ArgMinFrom(d, i + 1, IF d[i] < d[best] THEN i ELSE best)

\* mutant: the last of equal minima
ArgMin_Last(d) == CHOOSE i \in 1..Len(d) :
    /\ \A j \in 1..Len(d) : d[i] <= d[j]
    /\ \A j \in 1..Len(d) : d[j] = d[i] => j <= i

\* idx = np.argmin(dists)
ArgMin(d) == ArgMinFrom(d, 2, 1)

\* mutant: a distance equal to the threshold matches
Below_Inclusive(d, t) == d <= t

\* if dist < self.parameters['threshold']
Below(d, t) == d < t

\* match_face on an embedding that is not None, with a gallery of at
\* least one entry: <<label, distance, index looked at>>
match_face(e, db_embeddings, db_labels, t) ==
    LET dists == Dists(e, db_embeddings)
        idx == ArgMin(dists)
    IN  IF Below(dists[idx], t)
        THEN <<db_labels[idx], dists[idx], idx>>
        ELSE <<Unknown, dists[idx], idx>>

\* galleries of one to MaxGallery entries, as load_models builds them: one
\* label per embedding
Galleries ==
    UNION { [1..k -> Vectors] \X [1..k -> GalleryLabels] : k \in 1..MaxGallery }

\* the call match_face(embedding) with the gallery and threshold in args
MatchCall ==
    /\ fn = "match_face"
    /\ result = <<>>
    /\ result' = match_face(args[1], args[2], args[3], args[4])
    /\ UNCHANGED <<cfgVars, now, procVars, fsVars, workerVars, eventVars, histVars,
                   emitVars, frameVars, loopVars, svcVars, pubVars, fn, args>>

\* the same call once more
MatchAgain ==
    /\ fn = "match_face"
    /\ result # <<>>
    /\ result' = match_face(args[1], args[2], args[3], args[4])
    /\ fn' = "match_face again"
    /\ UNCHANGED <<cfgVars, now, procVars, fsVars, workerVars, eventVars, histVars,
                   emitVars, frameVars, loopVars, svcVars, pubVars, args>>

\* confidence = 1.0 - dist if name != "Unknown" else 0.0, on the scale of
\* CosDist
confidence(name, d) == IF name # Unknown THEN 1 - d ELSE 0

\* process_frame, lines 417-421, after match_face has returned: the name and
\* the confidence that go into the payload
EventConfidence ==
    /\ fn = "match_face"
    /\ result # <<>>
    /\ result' = <<result[1], confidence(result[1], result[2])>>
    /\ fn' = "process_frame"
    /\ UNCHANGED <<cfgVars, now, procVars, fsVars, workerVars, eventVars, histVars,
                   emitVars, frameVars, loopVars, svcVars, pubVars, args>>

InitMatch ==
    /\ required_confirmations = 1
    /\ unknown_interval = 1
    /\ has_on_attendance = FALSE
    /\ now = Epoch
    /\ max_failures = 1
    /\ reconnect_delay = 0
    /\ frame_skip = 1
    /\ ProcInit
    /\ VIOLATION_EMIT_INTERVAL = 1
    /\ EmitInit
    /\ fn = "match_face"
    /\ \E g \in Galleries, e \in Vectors, t \in Thresholds : args = <<e, g[1], g[2], t>>
    /\ result = <<>>

NextMatch == MatchCall \/ MatchAgain \/ EventConfidence

SpecMatch == InitMatch /\ [][NextMatch]_vars

\* ---------------------------------------------------------------- crop_face_with_buffer
\* a detector coordinate is a float: <<whole pixels, fraction in 1/SubPixel>>
Pixels == {0, 10, 11, 60, 190, 290, 295, 345, 480, 640}

Coords == Pixels \X (0..(SubPixel - 1))

\* the float's value in units of 1/SubPixel
Units(c) == c[1] * SubPixel + c[2]

\* img.shape[:2], as <<img_w, img_h>>
FrameShape == <<640, 480>>

\* results.boxes.xyxy: x1 < x2, y1 < y2, inside the frame
Boxes ==
    { b \in Coords \X Coords \X Coords \X Coords :
        /\ Units(b[1]) < Units(b[3])
        /\ Units(b[2]) < Units(b[4])
        /\ Units(b[3]) <= FrameShape[1] * SubPixel
        /\ Units(b[4]) <= FrameShape[2] * SubPixel }

\* lines 475-480: <<expand_x, expand_up, expand_down>> in hundredths
Expand(area) ==
    IF area < 8000 THEN <<20, 20, 30>>
    ELSE IF area < 25000 THEN <<15, 15, 30>>
    ELSE <<10, 10, 10>>

\* int(max(0, v - len * pct / 100))
LowEdge(v, len, pct) ==
    IF 100 * v - len * pct <= 0 THEN 0 ELSE (100 * v - len * pct) \div 100

\* int(min(limit, v + len * pct / 100))
HighEdge(v, len, pct, limit) ==
    IF 100 * v + len * pct >= 100 * limit THEN limit ELSE (100 * v + len * pct) \div 100

\* the rectangle <<x1, y1, x2, y2>> that img[y1:y2, x1:x2] is cut from
crop_face_with_buffer(shape, box) ==
    LET x1 == box[1][1]
        y1 == box[2][1]
        x2 == box[3][1]
        y2 == box[4][1]
        w == x2 - x1
        h == y2 - y1
        e == Expand(w * h)
    IN  <<LowEdge(x1, w, e[1]), LowEdge(y1, h, e[2]),
          HighEdge(x2, w, e[1], shape[1]), HighEdge(y2, h, e[3], shape[2])>>

\* cropped = self.crop_face_with_buffer(frame, box)
CropCall ==
    /\ fn = "crop_face_with_buffer"
    /\ result = <<>>
    /\ result' = crop_face_with_buffer(args[1], args[2])
    /\ UNCHANGED <<cfgVars, now, procVars, fsVars, workerVars, eventVars, histVars,
                   emitVars, frameVars, loopVars, svcVars, pubVars, fn, args>>

InitCrop ==
    /\ required_confirmations = 1
    /\ unknown_interval = 1
    /\ has_on_attendance = FALSE
    /\ now = Epoch
    /\ max_failures = 1
    /\ reconnect_delay = 0
    /\ frame_skip = 1
    /\ ProcInit
    /\ VIOLATION_EMIT_INTERVAL = 1
    /\ EmitInit
    /\ fn = "crop_face_with_buffer"
    /\ \E b \in Boxes : args = <<FrameShape, b>>
    /\ result = <<>>

SpecCrop == InitCrop /\ [][CropCall]_vars

\* ---------------------------------------------------------------- start
\* what start() meets: <<YOLO(...) loads, InceptionResnetV1(...) loads, the
\* configured FaceNet weights file (absent, loads, fails to load), the
\* gallery file loads, the directories can be made, who calls start()>>
StartInputs ==
    BOOLEAN \X BOOLEAN \X {"absent", "loads", "fails"} \X BOOLEAN \X BOOLEAN
        \X {"main", "get_processor"}

\* load_models: any exception of the outer try is re-raised; the exception
\* of load_state_dict is caught by the inner try and the pretrained
\* casia-webface weights stay. <<stage, weights in use>>
load_models(a) ==
    IF ~a[1] \/ ~a[2] THEN <<"raised", "none">>
    ELSE IF ~a[4] THEN <<"raised", IF a[3] = "loads" THEN "custom" ELSE "default">>
    ELSE <<"loaded", IF a[3] = "loads" THEN "custom" ELSE "default">>

\* self.load_models(); result is <<stage, weights in use, threads started,
\* what the caller of start() gets>>
LoadModels ==
    /\ fn = "start"
    /\ result = <<>>
    /\ result' = load_models(args) \o <<{}, "-">>
    /\ UNCHANGED <<cfgVars, now, procVars, fsVars, workerVars, eventVars, histVars,
                   emitVars, frameVars, loopVars, svcVars, pubVars, fn, args>>

\* self.create_directories()
CreateDirectories ==
    /\ Called("start")
    /\ result[1] = "loaded"
    /\ result' = [result EXCEPT ![1] = IF args[5] THEN "dirs" ELSE "raised"]
    /\ UNCHANGED <<cfgVars, now, procVars, fsVars, workerVars, eventVars, histVars,
                   emitVars, frameVars, loopVars, svcVars, pubVars, fn, args>>

\* for camera_id, feed_path in self.cameras.items(): thread.start()
SpawnThread ==
    /\ Called("start")
    /\ result[1] = "dirs"
    /\ \E c \in Cameras \ result[3] :
          result' = [result EXCEPT ![3] = @ \cup {c},
                                   ![1] = IF result[3] \cup {c} = Cameras
                                          THEN "started" ELSE @]
    /\ UNCHANGED <<cfgVars, now, procVars, fsVars, workerVars, eventVars, histVars,
                   emitVars, frameVars, loopVars, svcVars, pubVars, fn, args>>

\* main.py calls start() itself and gets its exception; get_processor runs
\* start() in the MJPEGProcessor thread, sleeps two seconds and returns the
\* processor whatever became of start()
Surfaced(stage, via) ==
    IF via = "get_processor" THEN "processor"
    ELSE IF stage = "raised" THEN "exception" ELSE "returned"

StartReturns ==
    /\ Called("start")
    /\ result[1] \in {"raised", "started"}
    /\ result[4] = "-"
    /\ result' = [result EXCEPT ![4] = Surfaced(result[1], args[6])]
    /\ UNCHANGED <<cfgVars, now, procVars, fsVars, workerVars, eventVars, histVars,
                   emitVars, frameVars, loopVars, svcVars, pubVars, fn, args>>

InitStart ==
    /\ required_confirmations = 1
    /\ unknown_interval = 1
    /\ has_on_attendance = FALSE
    /\ now = Epoch
    /\ max_failures = 1
    /\ reconnect_delay = 0
    /\ frame_skip = 1
    /\ ProcInit
    /\ VIOLATION_EMIT_INTERVAL = 1
    /\ EmitInit
    /\ fn = "start"
    /\ args \in StartInputs
    /\ result = <<>>

NextStart == LoadModels \/ CreateDirectories \/ SpawnThread \/ StartReturns

SpecStart == InitStart /\ [][NextStart]_vars

\* ---------------------------------------------------------------- latest_frames
\* cap.read() in a running worker: a frame (frame_counter += 1, line 323), or
\* nothing, which ends the iteration (312-320, with the release and the
\* reconnect when it is the max_failures-th)
ReadNext(w) ==
    /\ pp[w] = "read"
    /\ \/ /\ frame_counter[w] < MaxFrames
          /\ frame_counter' = [frame_counter EXCEPT ![w] = @ + 1]
          /\ pp' = [pp EXCEPT ![w] = "skip_test"]
       \/ /\ frame_counter' = frame_counter
          /\ pp' = pp
    /\ UNCHANGED <<svcVars, cfgVars, now, procVars, fsVars, workerVars, eventVars, histVars,
                   emitVars, frameVars, callVars, loopVars, frame_skip, viewed>>

\* mutant: no frame is skipped
Skipped_Never(n, k) == FALSE

\* if frame_counter % self.parameters['frame_skip'] != 0: continue
Skipped(n, k) == n % k # 0

SkipTest(w) ==
    /\ pp[w] = "skip_test"
    /\ pp' = [pp EXCEPT ![w] = IF Skipped(frame_counter[w], frame_skip)
                               THEN "read" ELSE "process"]
    /\ UNCHANGED <<svcVars, cfgVars, now, procVars, fsVars, workerVars, eventVars, histVars,
                   emitVars, frameVars, callVars, loopVars, frame_skip, frame_counter, viewed>>

\* processed = self.process_frame(camera_id, frame.copy()), which returns the
\* frame whatever happened in it
ProcessDone(w) ==
    /\ pp[w] = "process"
    /\ pp' = [pp EXCEPT ![w] = "lock"]
    /\ UNCHANGED <<svcVars, cfgVars, now, procVars, fsVars, workerVars, eventVars, histVars,
                   emitVars, frameVars, callVars, loopVars, frame_skip, frame_counter, viewed>>

\* with self.lock:
StoreAcquire(w) ==
    /\ pp[w] = "lock"
    /\ CanAcquire(w)
    /\ lock' = w
    /\ pp' = [pp EXCEPT ![w] = "store"]
    /\ UNCHANGED <<svcVars, cfgVars, now, attendance_log, confirmation_counts,
                   last_unknown_saved_time, current_hour, current_csv_path,
                   attendance_today, fsVars, workerVars, eventVars, histVars, emitVars,
                   frameVars, callVars, loopVars, frame_skip, frame_counter, viewed>>

\* self.latest_frames[camera_id] = processed: the frame is named by camera
\* and frame_counter
Store(w) ==
    /\ pp[w] = "store"
    /\ latest_frames' = Put(latest_frames, w, <<w, frame_counter[w]>>)
    /\ pp' = [pp EXCEPT ![w] = "unlock"]
    /\ UNCHANGED <<svcVars, cfgVars, now, procVars, fsVars, workerVars, eventVars, histVars,
                   emitVars, cropped, embedding, dist, detector_failed, callVars,
                   loopVars, frame_skip, frame_counter, viewed>>

\* the with block ends
StoreRelease(w) ==
    /\ pp[w] = "unlock"
    /\ lock' = Free
    /\ pp' = [pp EXCEPT ![w] = "read"]
    /\ UNCHANGED <<svcVars, cfgVars, now, attendance_log, confirmation_counts,
                   last_unknown_saved_time, current_hour, current_csv_path,
                   attendance_today, fsVars, workerVars, eventVars, histVars, emitVars,
                   frameVars, callVars, loopVars, frame_skip, frame_counter, viewed>>

\* generate_frames: with proc.lock:
ViewAcquire ==
    /\ CanAcquire("viewer")
    /\ lock' = "viewer"
    /\ UNCHANGED <<cfgVars, now, attendance_log, confirmation_counts,
                   last_unknown_saved_time, current_hour, current_csv_path,
                   attendance_today, fsVars, workerVars, eventVars, histVars, emitVars,
                   frameVars, callVars, loopVars, svcVars, pubVars>>

\* frame = proc.latest_frames.get(camera_id), and the with block ends
ViewRead ==
    /\ lock = "viewer"
    /\ \E c \in Cameras : viewed' = <<c, Get(latest_frames, c, <<>>)>>
    /\ lock' = Free
    /\ UNCHANGED <<svcVars, cfgVars, now, attendance_log, confirmation_counts,
                   last_unknown_saved_time, current_hour, current_csv_path,
                   attendance_today, fsVars, workerVars, eventVars, histVars, emitVars,
                   frameVars, callVars, loopVars, frame_skip, frame_counter, pp>>

InitPublish ==
    /\ required_confirmations = 1
    /\ unknown_interval = 1
    /\ has_on_attendance = FALSE
    /\ now = Epoch
    /\ max_failures = 1
    /\ reconnect_delay = 0
    /\ frame_skip \in 1..MaxSkip
    /\ ProcInit
    /\ CallIdle
    /\ VIOLATION_EMIT_INTERVAL = 1
    /\ EmitInit

NextPublish ==
    \/ \E w \in Cameras :
          \/ ReadNext(w) \/ SkipTest(w) \/ ProcessDone(w)
          \/ StoreAcquire(w) \/ Store(w) \/ StoreRelease(w)
    \/ ViewAcquire
    \/ ViewRead

SpecPublish == InitPublish /\ [][NextPublish]_vars

\* ---------------------------------------------------------------- downsampling
\* self.stream_resolution = (1280, 720)
stream_resolution == <<1280, 720>>

\* <<width, height>> of a frame, and of what cap.get reports at set-up
Resolutions == {640, 1280, 1920} \X {480, 720, 1080, 1920}

\* lines 348-353: the shape of the frame that goes on to process_frame, for
\* a frame of shape `shape` and self.capture_resolution = capture
Downsample(shape, capture) ==
    IF capture[1] > stream_resolution[1] \/ capture[2] > stream_resolution[2]
    THEN stream_resolution
    ELSE shape

\* one pass of a frame through lines 346-353; self.capture_resolution is the
\* frame's own resolution, or the one another camera's set-up (or this
\* camera's set-up before a reconnect) left in the shared attribute
ResizeCall ==
    /\ fn = "downsample"
    /\ result = <<>>
    /\ result' = Downsample(args[1], args[2])
    /\ UNCHANGED <<cfgVars, now, procVars, fsVars, workerVars, eventVars, histVars,
                   emitVars, frameVars, loopVars, svcVars, pubVars, fn, args>>

InitResize ==
    /\ required_confirmations = 1
    /\ unknown_interval = 1
    /\ has_on_attendance = FALSE
    /\ now = Epoch
    /\ max_failures = 1
    /\ reconnect_delay = 0
    /\ frame_skip = 1
    /\ ProcInit
    /\ VIOLATION_EMIT_INTERVAL = 1
    /\ EmitInit
    /\ fn = "downsample"
    /\ \E f \in Resolutions, c \in Resolutions : args = <<f, c>>
    /\ result = <<>>

SpecResize == InitResize /\ [][ResizeCall]_vars

\* ---------------------------------------------------------------- StreamManager
\* stream names given to ensure_stream / stop_stream
StreamNames == {"c1", "c2"}

\* no StreamProcess (None)
NoProc == 0

\* f"/streams/{name}/index.m3u8"
_public_playlist_url(name) == <<"streams", name, "index.m3u8">>

\* what the steps of a StreamManager call leave alone besides smVars
smRest == <<coreVars, gateVars, resVars, obsVars, wsVars>>

\* dict.pop(k, None): the dict afterwards
Del(f, k) == [x \in DOMAIN f \ {k} |-> f[x]]

\* mutant: a tracked process is never taken for running
is_running_Never(p) == FALSE

\* existing and existing.is_running(): process.poll() is None
is_running(p) == p # NoProc /\ procs[p].alive

\* a transcoder process ends on its own (source gone, ffmpeg error)
ProcExit ==
    /\ \E p \in 1..Len(procs) :
          /\ procs[p].alive
          /\ procs' = [procs EXCEPT ![p].alive = FALSE]
    /\ UNCHANGED <<smRest, _processes, _lock, sm_pc, sm>>

\* ensure_stream(name, rtsp_url) with a non-empty url, up to  with self._lock
EnsureEnter(t) ==
    /\ sm_pc[t] = "idle"
    /\ \E n \in StreamNames : sm' = [sm EXCEPT ![t] = [NoLocals EXCEPT !.name = n]]
    /\ sm_pc' = [sm_pc EXCEPT ![t] = "en_lock"]
    /\ UNCHANGED <<smRest, _processes, _lock, procs>>

\* with self._lock:  (ensure_stream, stop_stream and stop_all alike)
SmAcquire(t) ==
    /\ sm_pc[t] \in {"en_lock", "st_lock", "sa_lock"}
    /\ _lock = Free
    /\ _lock' = t
    /\ sm_pc' = [sm_pc EXCEPT ![t] = CASE @ = "en_lock" -> "en_check"
                                       [] @ = "st_lock" -> "st_pop"
                                       [] OTHER -> "sa_list"]
    /\ UNCHANGED <<smRest, _processes, procs, sm>>

\* lines 84-86: the tracked process is running, return the playlist url
EnsureCheck(t) ==
    /\ sm_pc[t] = "en_check"
    /\ IF is_running(Get(_processes, sm[t].name, NoProc))
       THEN /\ sm' = [sm EXCEPT ![t].ret = _public_playlist_url(sm[t].name)]
            /\ sm_pc' = [sm_pc EXCEPT ![t] = "en_unlock"]
       ELSE /\ sm' = sm
            /\ sm_pc' = [sm_pc EXCEPT ![t] = "en_popen"]
    /\ UNCHANGED <<smRest, _processes, _lock, procs>>

\* lines 88-100: the command is built, the log opened and ffmpeg started,
\* and the new StreamProcess is stored under the name; or one of mkdir,
\* open and Popen raises and the call ends with that exception
EnsurePopen(t) ==
    /\ sm_pc[t] = "en_popen"
    /\ \/ /\ Len(procs) < MaxProcs
          /\ procs' = Append(procs, [name |-> sm[t].name, alive |-> TRUE])
          /\ _processes' = Put(_processes, sm[t].name, Len(procs) + 1)
          /\ sm' = [sm EXCEPT ![t].ret = _public_playlist_url(sm[t].name)]
       \/ /\ procs' = procs
          /\ _processes' = _processes
          /\ sm' = [sm EXCEPT ![t].ret = <<"raised">>]
    /\ sm_pc' = [sm_pc EXCEPT ![t] = "en_unlock"]
    /\ UNCHANGED <<smRest, _lock>>

\* leaving the with block of ensure_stream: the call returns
EnsureRelease(t) ==
    /\ sm_pc[t] = "en_unlock"
    /\ _lock' = Free
    /\ sm_pc' = [sm_pc EXCEPT ![t] = "idle"]
    /\ UNCHANGED <<smRest, _processes, procs, sm>>

\* stop_stream(name) is called from outside
StopEnter(t) ==
    /\ sm_pc[t] = "idle"
    /\ \E n \in StreamNames : sm' = [sm EXCEPT ![t] = [NoLocals EXCEPT !.name = n]]
    /\ sm_pc' = [sm_pc EXCEPT ![t] = "st_lock"]
    /\ UNCHANGED <<smRest, _processes, _lock, procs>>

\* proc = self._processes.pop(name, None); if proc:
StopPop(t) ==
    /\ sm_pc[t] = "st_pop"
    /\ sm' = [sm EXCEPT ![t].proc = Get(_processes, sm[t].name, NoProc)]
    /\ _processes' = Del(_processes, sm[t].name)
    /\ sm_pc' = [sm_pc EXCEPT ![t] =
                    IF sm[t].name \in DOMAIN _processes THEN "st_stop" ELSE "st_unlock"]
    /\ UNCHANGED <<smRest, _lock, procs>>

\* proc.stop(): if it is running, terminate(), wait(timeout=5), kill()
StopProc(t) ==
    /\ sm_pc[t] = "st_stop"
    /\ procs' = [procs EXCEPT ![sm[t].proc].alive = FALSE]
    /\ sm_pc' = [sm_pc EXCEPT ![t] = "st_unlock"]
    /\ UNCHANGED <<smRest, _processes, _lock, sm>>

\* leaving the with block of stop_stream: back to the caller, which is
\* stop_all's loop or the outside
StopRelease(t) ==
    /\ sm_pc[t] = "st_unlock"
    /\ _lock' = Free
    /\ sm_pc' = [sm_pc EXCEPT ![t] = IF sm[t].all THEN "sa_loop" ELSE "idle"]
    /\ sm' = [sm EXCEPT ![t].proc = NoProc]
    /\ UNCHANGED <<smRest, _processes, procs>>

\* stop_all() is called
StopAllEnter(t) ==
    /\ sm_pc[t] = "idle"
    /\ sm' = [sm EXCEPT ![t] = [NoLocals EXCEPT !.all = TRUE]]
    /\ sm_pc' = [sm_pc EXCEPT ![t] = "sa_lock"]
    /\ UNCHANGED <<smRest, _processes, _lock, procs>>

\* names = list(self._processes.keys()), and the with block is left
StopAllList(t) ==
    /\ sm_pc[t] = "sa_list"
    /\ \E names \in UNION { [1..k -> DOMAIN _processes] : k \in 0..Cardinality(StreamNames) } :
          /\ Len(names) = Cardinality(DOMAIN _processes)
          /\ \A i, j \in 1..Len(names) : i # j => names[i] # names[j]
          /\ sm' = [sm EXCEPT ![t].names = names]
    /\ _lock' = Free
    /\ sm_pc' = [sm_pc EXCEPT ![t] = "sa_loop"]
    /\ UNCHANGED <<smRest, _processes, procs>>

\* for name in names: self.stop_stream(name)
StopAllLoop(t) ==
    /\ sm_pc[t] = "sa_loop"
    /\ IF sm[t].names = <<>>
       THEN /\ sm_pc' = [sm_pc EXCEPT ![t] = "idle"]
            /\ sm' = sm
       ELSE /\ sm_pc' = [sm_pc EXCEPT ![t] = "st_lock"]
            /\ sm' = [sm EXCEPT ![t].name = Head(sm[t].names),
                                ![t].names = Tail(sm[t].names)]
    /\ UNCHANGED <<smRest, _processes, _lock, procs>>

StreamCall(t) ==
    \/ EnsureEnter(t) \/ SmAcquire(t) \/ EnsureCheck(t) \/ EnsurePopen(t)
    \/ EnsureRelease(t) \/ StopEnter(t) \/ StopPop(t) \/ StopProc(t)
    \/ StopRelease(t) \/ StopAllEnter(t) \/ StopAllList(t) \/ StopAllLoop(t)

NextStream == ProcExit \/ \E t \in Threads : StreamCall(t)

SpecStream == InitFrame /\ [][NextStream]_vars

\* ---------------------------------------------------------------- ConnectionManager
\* the WebSocket objects
Connections == {"a", "b", "c"}

\* what the ConnectionManager's steps leave alone besides wsVars
wsRest == <<coreVars, gateVars, resVars, obsVars, smVars>>

\* the elements of a list
Range(l) == { l[i] : i \in 1..Len(l) }

\* list.remove(x) for an x that is in the list: the first occurrence goes
Remove(l, x) ==
    LET i == CHOOSE j \in 1..Len(l) : l[j] = x /\ \A k \in 1..(j - 1) : l[k] # x
    IN  SubSeq(l, 1, i - 1) \o SubSeq(l, i + 1, Len(l))

\* connect(websocket): accept, then append.  Connections come and go
\* between broadcasts.
Connect ==
    /\ bc_pc = "idle"
    /\ \E c \in Connections \ Range(active_connections) :
          active_connections' = Append(active_connections, c)
    /\ UNCHANGED <<wsRest, bc_pc, bc_i, bc_start, sent_to, send_failed>>

\* disconnect(websocket): remove it; ValueError (not in the list) is passed
Disconnect ==
    /\ bc_pc = "idle"
    /\ \E c \in Connections :
          active_connections' =
              IF c \in Range(active_connections)
              THEN Remove(active_connections, c) ELSE active_connections
    /\ UNCHANGED <<wsRest, bc_pc, bc_i, bc_start, sent_to, send_failed>>

\* broadcast(message) is called: the for statement takes an iterator over
\* self.active_connections itself, positioned before its first element
BroadcastStart ==
    /\ bc_pc = "idle"
    /\ bc_pc' = "loop"
    /\ bc_i' = 0
    /\ bc_start' = active_connections
    /\ sent_to' = {}
    /\ send_failed' = {}
    /\ UNCHANGED <<wsRest, active_connections>>

\* one iteration: the iterator yields the element at its position in the
\* list as it is now and moves on by one; send_text succeeds, or raises and
\* the connection is removed from the list being iterated
BroadcastSend ==
    /\ bc_pc = "loop"
    /\ bc_i < Len(active_connections)
    /\ LET connection == active_connections[bc_i + 1] IN
          /\ sent_to' = sent_to \cup {connection}
          /\ \/ /\ active_connections' = active_connections
                /\ send_failed' = send_failed
             \/ /\ active_connections' = Remove(active_connections, connection)
                /\ send_failed' = send_failed \cup {connection}
    /\ bc_i' = bc_i + 1
    /\ UNCHANGED <<wsRest, bc_pc, bc_start>>

\* the iterator's position is at or past the end of the list: the loop ends
\* and broadcast returns
BroadcastEnd ==
    /\ bc_pc = "loop"
    /\ bc_i >= Len(active_connections)
    /\ bc_pc' = "done"
    /\ UNCHANGED <<wsRest, active_connections, bc_i, bc_start, sent_to, send_failed>>

\* create_violation goes on after  await manager.broadcast(...)
BroadcastReturn ==
    /\ bc_pc = "done"
    /\ bc_pc' = "idle"
    /\ UNCHANGED <<wsRest, active_connections, bc_i, bc_start, sent_to, send_failed>>

NextBroadcast ==
    \/ Connect \/ Disconnect \/ BroadcastStart \/ BroadcastSend \/ BroadcastEnd
    \/ BroadcastReturn

SpecBroadcast == InitFrame /\ [][NextBroadcast]_vars

\* ---------------------------------------------------------------- capture_resolution, several workers
\* if cap_w > stream_w or cap_h > stream_h
TooLarge(capture) ==
    capture[1] > stream_resolution[1] \/ capture[2] > stream_resolution[2]

\* lines 262-284 of worker w's set-up: what its capture reports goes into
\* the processor's one capture_resolution attribute
SetupResolution(w) ==
    /\ rs[w] = "setup"
    /\ \E r \in Resolutions :
          /\ actual' = [actual EXCEPT ![w] = r]
          /\ capture_resolution' = r
    /\ rs' = [rs EXCEPT ![w] = "loop"]
    /\ UNCHANGED <<coreVars, gateVars, obsVars, smVars, wsVars, resized>>

\* lines 348-353 for one frame of worker w
DownsampleStep(w) ==
    /\ rs[w] = "loop"
    /\ resized' = [resized EXCEPT ![w] =
                       IF TooLarge(capture_resolution) THEN "yes" ELSE "no"]
    /\ UNCHANGED <<coreVars, gateVars, obsVars, smVars, wsVars, capture_resolution,
                   actual, rs>>

NextShared == \E w \in Cameras : SetupResolution(w) \/ DownsampleStep(w)

SpecShared == InitFrame /\ [][NextShared]_vars

\* ---------------------------------------------------------------- log_attendance
\* one call of log_attendance from handle_known_face (line 523, followed by
\* stats['attendance_today'] += 1), at any time and with any of its failures
LogCall ==
    /\ attendance_today < MaxDetections
    /\ \E name \in Labels, c \in Cameras, lo \in LedgerOutcomes :
          LET led == LogAttendance(name, now, c, lo)
          IN  /\ current_hour' = led.hour
              /\ current_csv_path' = led.path
              /\ csv_files' = led.files
    /\ attendance_today' = attendance_today + 1
    /\ UNCHANGED <<cfgVars, now, lock, attendance_log, confirmation_counts,
                   last_unknown_saved_time, matched_files, unknown_files, workerVars,
                   eventVars, histVars, emitVars, frameVars, callVars, loopVars, svcVars, pubVars>>

SpecLedger == InitFrame /\ [][Tick \/ LogCall]_vars

\* ================================================================ claims
\* ---------------------------------------------------------------- observers
\* no worker is between reading the counter of l and acting on the new value
Settled(l) == \A w \in Cameras : ~(cur[w] = l /\ pc[w] \in {"hk_inc", "hk_test"})

\* workers that have read the counter of l and not yet stored the new value
InFlight(l) == Cardinality({w \in Cameras : cur[w] = l /\ pc[w] = "hk_inc"})

\* at least n matches of l have been handled
Handled(l, n) == seen[l] >= n /\ Settled(l)

\* the ledger rows of l, and its files in the matched directory
RowValues(l) == { csv_files[p[1]][p[2]] : p \in RowsOf(l) }
MatchedOf(l) == { f \in matched_files : f[2] = l }

\* ---------------------------------------------------------------- C1
\* C1 as stated: a label never has more than one ledger row, and once T
\* matches of it have been handled it has exactly one.
C1_AsStated ==
    \A l \in Labels :
        /\ Cardinality(RowsOf(l)) <= 1
        /\ Handled(l, required_confirmations) => Cardinality(RowsOf(l)) = 1

\* C1 amended: a label never has more than one ledger row and log_attendance
\* is called at most once for it; once T matches have been handled the label
\* is in the attendance log, the one call has been made, and the row is there
\* exactly if that write did not fail; further matches change none of this.
C1_AtMostOneRecord ==
    \A l \in Labels :
        /\ Cardinality(RowsOf(l)) <= 1
        /\ log_calls[l] <= 1
        /\ Handled(l, required_confirmations) =>
              /\ l \in DOMAIN attendance_log
              /\ log_calls[l] = 1
              /\ Cardinality(RowsOf(l)) = log_ok[l]

C1_Witness ==
    \E l \in Labels :
        /\ seen[l] > required_confirmations
        /\ Settled(l)
        /\ Cardinality(RowsOf(l)) = 1

\* ---------------------------------------------------------------- C2
\* C2: while a label is unconfirmed its count equals the number of its matches
\* handled so far (1 after the first, one more after each), the count never
\* passes T, and the label is in the attendance log exactly when the count has
\* reached T, so never before T matches.
C2_CountsToThreshold ==
    \A l \in Labels :
        LET c == Get(confirmation_counts, l, 0) IN
        /\ c <= required_confirmations
        /\ l \notin DOMAIN attendance_log => c = seen[l] - InFlight(l)
        /\ l \in DOMAIN attendance_log => c = required_confirmations /\ seen[l] >= c
        /\ l \in DOMAIN attendance_log <=>
              (c >= required_confirmations
               /\ \A w \in Cameras : ~(cur[w] = l /\ pc[w] = "hk_test"))

C2_Witness ==
    \E l \in Labels :
        /\ required_confirmations >= 2
        /\ l \in DOMAIN attendance_log
        /\ seen[l] = required_confirmations

\* ---------------------------------------------------------------- C3
\* the side effects of l happen together, at most once, not before the T-th
\* match and by the end of it
SideEffectsOnce(l) ==
    /\ log_calls[l] <= 1
    /\ save_calls[l] = log_calls[l]
    /\ notify_calls[l] = (IF has_on_attendance THEN log_calls[l] ELSE 0)
    /\ seen[l] < required_confirmations => log_calls[l] = 0
    /\ Handled(l, required_confirmations) => log_calls[l] = 1
    /\ Cardinality(RowsOf(l)) <= log_calls[l]
    /\ Cardinality(MatchedOf(l)) <= save_calls[l]

\* T = 3 and exactly three matches of l, all on camera C1, have been handled
ThreeOnC1(l) ==
    /\ required_confirmations = 3
    /\ seen[l] = 3
    /\ Settled(l)
    /\ nboxes["C2"] = 0

\* C3 as stated: ledger append, matched-evidence write and on_attendance
\* happen at most once per label, all on the T-th match; with T = 3 and three
\* matches on C1 there is one ledger row l,<timestamp>,C1 and one matched file.
C3_AsStated ==
    \A l \in Labels :
        /\ SideEffectsOnce(l)
        /\ ThreeOnC1(l) =>
              /\ \E t \in Epoch..MaxTime : RowValues(l) = {LedgerRow(l, t, "C1")}
              /\ Cardinality(MatchedOf(l)) = 1

\* C3 amended: as stated, but in the T = 3 scenario the ledger row and the
\* matched file are there exactly if their write did not fail.
C3_SideEffectsOnConfirm ==
    \A l \in Labels :
        /\ SideEffectsOnce(l)
        /\ ThreeOnC1(l) =>
              /\ Cardinality(RowsOf(l)) = log_ok[l]
              /\ \A r \in RowValues(l) : r.name = l /\ r.cam = "C1"
              /\ Cardinality(MatchedOf(l)) = save_ok[l]
              /\ \A f \in MatchedOf(l) : f[1] = "C1"

C3_Witness ==
    \E l \in Labels :
        /\ ThreeOnC1(l)
        /\ Cardinality(RowsOf(l)) = 1
        /\ Cardinality(MatchedOf(l)) = 1

\* ---------------------------------------------------------------- C4
\* worker w is handling a match of a label that is already in the attendance log
LaterMatch(w) ==
    \/ pc[w] \in {"hk_lock", "hk_read"} /\ cur[w] \in DOMAIN attendance_log
    \/ pc[w] \in {"hk_unlock", "emit"} /\ cur[w] \in Labels /\ tmp[w] = Skip

\* C4: a label in the attendance log stays there with the same time; a match
\* of such a label changes neither the confirmation table nor the ledger nor
\* the matched directory, and ends in a payload without evidence filename.
C4_ConfirmedIsTerminal ==
    [][ /\ \A l \in DOMAIN attendance_log :
              l \in DOMAIN attendance_log' /\ attendance_log'[l] = attendance_log[l]
        /\ \A w \in Cameras :
              (LaterMatch(w) /\ pc'[w] # pc[w]) =>
                  /\ UNCHANGED <<attendance_log, confirmation_counts, csv_files,
                                 matched_files, attendance_today>>
                  /\ pc[w] = "hk_read" => pc'[w] = "hk_unlock"
                  /\ pc[w] = "hk_unlock" => pc'[w] = "emit"
                  /\ pc[w] = "emit" =>
                        /\ Payload(w).name = cur[w]
                        /\ Payload(w).image_filename = NoFile ]_vars

C4_Witness ==
    \E w \in Cameras : pc[w] = "emit" /\ cur[w] \in Labels /\ tmp[w] = Skip

\* ---------------------------------------------------------------- C5
\* C5: the matches of a label count together whatever camera they come from:
\* once T of them have been handled the label is confirmed, once; and a ledger
\* row of the label carries the camera of the worker that confirmed it.
C5_GlobalCounting ==
    \A l \in Labels :
        /\ Handled(l, required_confirmations) => l \in DOMAIN attendance_log
        /\ l \in DOMAIN attendance_log => seen[l] >= required_confirmations
        /\ attendance_today = Cardinality(DOMAIN attendance_log)
        /\ \A r \in RowValues(l) :
              l \in DOMAIN confirmed_by /\ r.cam = confirmed_by[l]

C5_Witness ==
    \E l \in Labels :
        /\ required_confirmations = 2
        /\ seen[l] = 2
        /\ nboxes["C1"] = 1
        /\ nboxes["C2"] = 1
        /\ \E r \in RowValues(l) : r.cam = "C2"

\* ---------------------------------------------------------------- C6
\* C6 as stated: whatever the interleaving, once n >= T matches have been
\* handled the label is confirmed with exactly one ledger row and one
\* matched-evidence write.
C6_AsStated ==
    \A l \in Labels :
        Handled(l, required_confirmations) =>
            /\ l \in DOMAIN attendance_log
            /\ Cardinality(RowsOf(l)) = 1
            /\ save_calls[l] = 1

\* C6 amended: whatever the interleaving, at most one worker is inside the
\* locked region, no increment is lost, and once n >= T matches have been
\* handled the label is confirmed with exactly one ledger append and one
\* matched-evidence write attempted; the row is there exactly if the append
\* did not fail.
C6_AtomicConfirm ==
    /\ Cardinality({w \in Cameras :
           pc[w] \in {"hk_read", "hk_inc", "hk_test", "hk_unlock"}}) <= 1
    /\ \A l \in Labels :
          /\ l \notin DOMAIN attendance_log =>
                Get(confirmation_counts, l, 0) + InFlight(l) = seen[l]
          /\ log_calls[l] <= 1
          /\ save_calls[l] <= 1
          /\ Handled(l, required_confirmations) =>
                /\ l \in DOMAIN attendance_log
                /\ log_calls[l] = 1
                /\ save_calls[l] = 1
                /\ Cardinality(RowsOf(l)) = log_ok[l]

\* two workers are in handle_known_face for the same label while its count
\* is T-1: one has read the count, the other waits for the lock
C6_Witness ==
    /\ pc["C1"] = "hk_inc"
    /\ tmp["C1"] = required_confirmations - 1
    /\ pc["C2"] = "hk_lock"
    /\ cur["C2"] = cur["C1"]

\* ---------------------------------------------------------------- C7
\* the time between this unknown detection and the last one saved
SinceLastSave(w) == current_time[w] - last_unknown_saved_time[w]

\* C7 as stated: an unknown detection calls save_face_crop exactly if it is
\* the camera's first or at least I after the last saved one.
C7_AsStated ==
    [][ \A w \in Cameras :
          (pc[w] = "hu_check" /\ pc'[w] = "hu_unlock") =>
              (attempted'[w] <=>
                  (IF w \in DOMAIN last_unknown_saved_time
                   THEN SinceLastSave(w) >= unknown_interval
                   ELSE TRUE)) ]_vars

\* C7 amended: an unknown detection calls save_face_crop exactly if it is the
\* camera's first or more than I after the last saved one; at exactly I, or
\* less, it does not.
C7_ThrottleStrict ==
    [][ \A w \in Cameras :
          (pc[w] = "hu_check" /\ pc'[w] = "hu_unlock") =>
              (attempted'[w] <=>
                  (IF w \in DOMAIN last_unknown_saved_time
                   THEN SinceLastSave(w) > unknown_interval
                   ELSE TRUE)) ]_vars

\* a detection exactly I after the last saved one has gone without a save
C7_Witness ==
    \E w \in Cameras :
        /\ pc[w] = "hu_unlock"
        /\ ~attempted[w]
        /\ w \in DOMAIN last_unknown_saved_time
        /\ SinceLastSave(w) = unknown_interval

\* ---------------------------------------------------------------- C8
\* C8: the payload handed to on_violation names an evidence file exactly if
\* an evidence image was written while handling that detection.
C8_FilenameIffWritten ==
    \A w \in Cameras : pc[w] = "emit" => ((ret[w] # NoFile) <=> wrote[w])

\* ---------------------------------------------------------------- C9
\* the offers made for key k, and the forwards made for it
OffersOf(k) == SelectSeq(offered, LAMBDA o : o.key = k)
PostsOf(k) == SelectSeq(posted, LAMBDA o : o.key = k)

\* every offer for k so far lies within W of the first one
AllWithinFirst(k) ==
    LET s == OffersOf(k) IN
    \A i \in 1..Len(s) : s[i].time - s[1].time < VIOLATION_EMIT_INTERVAL

\* every offer for k so far lies W or more after the one before it
AllSpaced(k) ==
    LET s == OffersOf(k) IN
    \A i \in 1..(Len(s) - 1) : s[i + 1].time - s[i].time >= VIOLATION_EMIT_INTERVAL

\* C9: once the offered events have been dealt with, a key whose N >= 1
\* offers all lie within W of the first has exactly one forward, and a key
\* whose N offers are W or more apart has N forwards, whatever was offered
\* for other keys in between.
C9_OnePerWindow ==
    em_pc = "idle" =>
        \A k \in Keys :
            /\ (Len(OffersOf(k)) >= 1 /\ AllWithinFirst(k)) => Len(PostsOf(k)) = 1
            /\ AllSpaced(k) => Len(PostsOf(k)) = Len(OffersOf(k))

\* one key with two offers in one window and one forward, another key with
\* two offers a window apart and two forwards
C9_Witness ==
    /\ em_pc = "idle"
    /\ \E k1, k2 \in Keys :
          /\ k1 # k2
          /\ Len(OffersOf(k1)) = 2 /\ AllWithinFirst(k1) /\ Len(PostsOf(k1)) = 1
          /\ Len(OffersOf(k2)) = 2 /\ AllSpaced(k2) /\ Len(PostsOf(k2)) = 2

\* ---------------------------------------------------------------- C10
\* C10: a dropped event changes neither the table nor the forwards; a passed
\* event sets the entry of its key, and of no other, to its now and is
\* forwarded exactly once whatever the outcome of the forward, which changes
\* the table no more; nothing else touches the table or forwards.
C10_EmitFrame ==
    /\ [](em_pc = "post" =>
            /\ em.key \in DOMAIN _last_violation_emit
            /\ _last_violation_emit[em.key] = em.now)
    /\ [][ /\ (em_pc = "gate" /\ em_pc' = "idle") =>
                 UNCHANGED <<_last_violation_emit, posted>>
           /\ (em_pc = "gate" /\ em_pc' = "post") =>
                 /\ posted' = posted
                 /\ DOMAIN _last_violation_emit' = DOMAIN _last_violation_emit \cup {em.key}
                 /\ \A k \in DOMAIN _last_violation_emit' :
                       _last_violation_emit'[k] =
                           IF k = em.key THEN em.now ELSE _last_violation_emit[k]
           /\ (em_pc = "post" /\ em_pc' # "post") =>
                 /\ em_pc' = "idle"
                 /\ Len(posted') = Len(posted) + 1
                 /\ posted'[Len(posted')].key = em.key
                 /\ SubSeq(posted', 1, Len(posted)) = posted
                 /\ UNCHANGED _last_violation_emit
           /\ posted' # posted => em_pc = "post"
           /\ _last_violation_emit' # _last_violation_emit => em_pc = "gate" ]_vars

\* a forward raised, and the entry of its key is the time of that event
C10_Witness ==
    /\ em_pc = "idle"
    /\ Len(posted) >= 1
    /\ em.outcome = "raise"
    /\ posted[Len(posted)].key = em.key
    /\ _last_violation_emit[em.key] = em.now
    /\ Len(offered) > Len(posted)

\* ---------------------------------------------------------------- C11
\* C11: the callback of inference/main.py forwards at most one event per
\* (camera, identity) and interval: a key whose offers all lie within one
\* interval of the first has at most one forward.
C11_MainRateLimited ==
    em_pc = "idle" =>
        \A k \in Keys :
            (Len(OffersOf(k)) >= 1 /\ AllWithinFirst(k)) => Len(PostsOf(k)) <= 1

\* ---------------------------------------------------------------- C12
\* the integer of a camera id
CameraNumber(c) == IF c = "C1" THEN 1 ELSE 2

\* C12: every forwarded record has as image_path the evidence filename of the
\* event it carries, or the empty string when the event has none, and as
\* camera_id the integer of the event's camera.
C12_ForwardedRecord ==
    \A i \in 1..Len(posted) :
        LET r == posted[i].payload IN
        /\ r.image_path = (IF r.details.image_filename # NoFile
                           THEN r.details.image_filename ELSE EmptyPath)
        /\ r.camera_id = CameraNumber(r.details.camera_id)

\* ---------------------------------------------------------------- C13
\* the shorter side of a crop
ShorterSide(c) == IF c[1] < c[2] THEN c[1] ELSE c[2]

\* what the handling of a box by the size gate must leave alone
GateFrame ==
    UNCHANGED <<embedding, cur, dist, ret, attendance_log, confirmation_counts,
                last_unknown_saved_time, csv_files, matched_files, unknown_files,
                save_calls, log_calls>>

\* C13: a box whose crop has a shorter side below min_face_size goes from the
\* gate straight to the small-face event (small_face, "Unknown", confidence 0,
\* no filename) and from there to the next box; neither step computes an
\* embedding, matches, writes evidence or changes the confirmation table or the
\* unknown cooldown; and only such a box produces the small-face event.
C13_SizeGate ==
    /\ [](\A w \in Cameras :
            pc[w] = "emit_small" =>
                /\ SmallPayload(w).small_face
                /\ SmallPayload(w).name = Unknown
                /\ SmallPayload(w).confidence = 0
                /\ SmallPayload(w).image_filename = NoFile)
    /\ [][ \A w \in Cameras :
             /\ (pc[w] = "gate" /\ pc'[w] # "gate") =>
                   IF ShorterSide(cropped[w]) < min_face_size
                   THEN pc'[w] = "emit_small" /\ GateFrame
                   ELSE pc'[w] = "match"
             /\ (pc[w] = "emit_small" /\ pc'[w] # "emit_small") =>
                   pc'[w] = "box" /\ GateFrame ]_vars

\* a crop with one side long enough and the other too short is at the
\* small-face event
C13_Witness ==
    \E w \in Cameras :
        /\ pc[w] = "emit_small"
        /\ cropped[w] = <<MaxSide, 0>>
        /\ nboxes[w] >= 2

\* ---------------------------------------------------------------- C20
\* C20: a frame whose detector call raised has no box taken up and no event,
\* and is stored as the latest frame of its camera; a crop whose embedding is
\* None is dispatched as Unknown with distance 1.0 and confidence 0 to
\* handle_unknown_face.
C20_ModelErrors ==
    /\ [](\A w \in Cameras :
            detector_failed[w] => pc[w] = "abort" /\ remaining[w] = 0)
    /\ [][ \A w \in Cameras :
             /\ (detector_failed[w] /\ pc'[w] # pc[w]) =>
                   /\ pc'[w] = "idle"
                   /\ w \in DOMAIN latest_frames'
                   /\ latest_frames'[w] = "raw"
             /\ (detector_failed[w] \/ detector_failed'[w]) => nboxes' = nboxes
             /\ (pc[w] = "match" /\ embedding[w] = NoEmbedding /\ pc'[w] # "match") =>
                   /\ cur'[w] = Unknown
                   /\ dist'[w] = MaxDist
                   /\ Confidence(cur'[w], dist'[w]) = 0
                   /\ pc'[w] = "hu_time" ]_vars

\* a failed frame has been stored, and a crop without embedding is at the match
C20_Witness ==
    \E w \in Cameras :
        /\ w \in DOMAIN latest_frames
        /\ latest_frames[w] = "raw"
        /\ pc[w] = "match"
        /\ embedding[w] = NoEmbedding

\* ---------------------------------------------------------------- C18
\* C18: no step that writes a ledger file or an evidence image, or calls
\* on_attendance, is taken by a worker while the lock is held.
C18_NoIoUnderLock ==
    [][ (\/ csv_files' # csv_files
         \/ matched_files' # matched_files
         \/ unknown_files' # unknown_files
         \/ log_calls' # log_calls
         \/ save_calls' # save_calls
         \/ notify_calls' # notify_calls) => lock = Free ]_vars

\* ---------------------------------------------------------------- C19
\* worker w is about to hand over the event of a confirming match whose
\* ledger write or evidence write failed
FailedConfirm(w) ==
    /\ pc[w] = "emit"
    /\ cur[w] \in Labels
    /\ attempted[w]
    /\ (log_ok[cur[w]] = 0 \/ ~wrote[w])

\* C19: when the ledger write or the evidence write of the confirming match
\* fails, the label is confirmed all the same, neither write is made a second
\* time, and the event of that match is handed over without evidence filename.
C19_NoRollback ==
    /\ \A l \in Labels : log_calls[l] <= 1 /\ save_calls[l] <= 1
    /\ \A w \in Cameras :
          FailedConfirm(w) =>
              /\ cur[w] \in DOMAIN attendance_log
              /\ Payload(w).image_filename = NoFile

\* ---- camera loop
ReleasedBy(w) == cap[w] = "open" /\ cap'[w] = "none"

EmptyRead(w) == lp[w] = "read" /\ lp'[w] = "while"

GoodRead(w) == lp[w] = "read" /\ lp'[w] = "read_test"

\* C14: in a running worker the source handle is released by an empty read,
\* and by exactly the one that is the max_failures-th in a row; a frame that
\* is read and the release both set the failure count back to zero, so the
\* count is the number of empty reads in a row; a released handle is opened
\* again (after the backoff) before it is next read, and only the open at
\* line 308 replaces it.
C14_ReconnectThreshold ==
    /\ [](\A w \in Cameras : fail_count[w] = empties[w] /\ fail_count[w] < max_failures)
    /\ [][\A w \in Cameras :
            /\ EmptyRead(w) => (ReleasedBy(w) <=> empties[w] + 1 = max_failures)
            /\ ReleasedBy(w) => EmptyRead(w) /\ fail_count'[w] = 0
            /\ GoodRead(w) => fail_count'[w] = 0
            /\ (cap[w] = "none" /\ cap'[w] # "none") => lp[w] = "open"
            /\ (cap[w] = "none" /\ lp[w] = "after_backoff" /\ running) => lp'[w] # "cleanup"
            /\ lp'[w] = "read" => cap'[w] = "open"]_vars

\* the threshold is above one, the handle has been released and the worker
\* is at the open that follows the backoff
C14_Witness ==
    \E w \in Cameras :
        /\ max_failures > 1
        /\ cap[w] = "none"
        /\ lp[w] = "open"
        /\ waited[w] = reconnect_delay
        /\ reconnect_delay > 0


\* C15: once stop() has cleared the flag a worker in its reconnect backoff
\* sleeps at most one more one-second tick (the one it was in, or about to
\* start), and a worker that has read the flag as cleared goes to the
\* clean-up without attempting another open or replacing its handle.
C15_StopDuringBackoff ==
    /\ [](\A w \in Cameras :
            /\ late_sleeps[w] <= 1
            /\ observed[w] => lp[w] \in {"after_backoff", "cleanup", "exited"})
    /\ [][\A w \in Cameras :
            observed[w] =>
                /\ lp'[w] \notin {"open", "sleep", "read"}
                /\ cap'[w] # cap[w] => lp[w] = "cleanup"]_vars

\* a backoff of more than one tick was cut short: the worker slept one tick
\* after the flag was cleared, saw it, and ended without the open
C15_Witness ==
    \E w \in Cameras :
        /\ reconnect_delay > 1
        /\ late_sleeps[w] = 1
        /\ waited[w] < reconnect_delay
        /\ observed[w]
        /\ lp[w] = "exited"
        /\ cap[w] # "open"

\* C16: no error ends a worker: a thread that is out of its loop (cleaning
\* up, or no longer alive) is one whose stop flag has been cleared.
C16_OnlyStopEndsWorker ==
    \A w \in Cameras : lp[w] \in {"cleanup"} \cup Ended => ~running

\* C17: after stop() is called, from whatever point of their iteration the
\* workers are at, every worker ends (given that each call a worker is in
\* returns), and stop() itself returns after one bounded join per thread;
\* stop() only clears the flag and waits: no step of it changes a worker's
\* position, handle or counters, so it can return with a worker still alive.
C17_Shutdown ==
    /\ (stop_idx # 0) ~> (\A w \in Cameras : lp[w] \in Ended)
    /\ (stop_idx # 0) ~> (stop_idx = Returned)
    /\ [][stop_idx' # stop_idx =>
            /\ UNCHANGED <<lp, cap, fail_count, waited, empties, late_sleeps, observed>>
            /\ ~running']_vars

\* stop() has returned and a worker is still in its loop, not yet having
\* seen the flag
C17_Witness ==
    /\ stop_idx = Returned
    /\ \E w \in Cameras : lp[w] \in {"read", "frame", "sleep"} /\ ~observed[w]

\* ---- match_face
\* the least distance from the query to any gallery entry
MinDist(e, g) ==
    CHOOSE m \in {CosDist(e, g[i]) : i \in 1..Len(g)} :
        \A i \in 1..Len(g) : m <= CosDist(e, g[i])

\* the first gallery index at the least distance
FirstNearest(e, g) ==
    CHOOSE i \in 1..Len(g) :
        /\ CosDist(e, g[i]) = MinDist(e, g)
        /\ \A j \in 1..(i - 1) : CosDist(e, g[j]) # MinDist(e, g)

\* C21: for every gallery of one or more entries and every query, match_face
\* looks at an index inside the gallery, the first one at the least distance
\* over the whole gallery; it returns that entry's label exactly when the least
\* distance is strictly below the threshold and the Unknown sentinel
\* otherwise (also when the least distance equals the threshold); a second
\* call with the same gallery and query returns the same.
C21_Match ==
    /\ [](fn \in {"match_face", "match_face again"} /\ result # <<>> =>
            LET e == args[1]
                g == args[2]
                l == args[3]
                t == args[4]
            IN  /\ result[3] \in 1..Len(g)
                /\ result[3] = FirstNearest(e, g)
                /\ result[2] = MinDist(e, g)
                /\ result[1] \in {Unknown, l[FirstNearest(e, g)]}
                /\ result[1] # Unknown <=> MinDist(e, g) < t
                /\ MinDist(e, g) = t => result[1] = Unknown)
    /\ [][fn' = "match_face again" => result' = result]_vars

\* two entries with different labels are both nearest and below the
\* threshold: the first one's label came back, twice
C21_Witness ==
    /\ fn = "match_face again"
    /\ Len(args[2]) > 1
    /\ \E i, j \in 1..Len(args[2]) :
          /\ i < j
          /\ CosDist(args[1], args[2][i]) = CosDist(args[1], args[2][j])
          /\ CosDist(args[1], args[2][i]) = MinDist(args[1], args[2])
          /\ args[3][i] # args[3][j]
          /\ result[1] = args[3][i]
          /\ FirstNearest(args[1], args[2]) = i

\* the gallery indices whose vector is the query itself
Identical(e, g) == {i \in 1..Len(g) : g[i] = e}

\* C22 as stated: a query identical to gallery entry i gives label i and
\* distance 0, whatever the gallery and the threshold.
C22_AsStated ==
    Called("match_face") =>
        \A i \in Identical(args[1], args[2]) :
            result[1] = args[3][i] /\ result[2] = 0

\* C22 (amended): a query identical to gallery entry i gives distance 0; with
\* a threshold above 0 the label is that of the first gallery entry at
\* distance 0, which is label i unless an earlier entry holds a vector of the
\* same direction; with a threshold of 0 or less the result is Unknown.
C22_IdenticalQuery ==
    (Called("match_face") /\ Identical(args[1], args[2]) # {}) =>
        LET e == args[1]
            g == args[2]
            first == CHOOSE i \in 1..Len(g) :
                        /\ CosDist(e, g[i]) = 0
                        /\ \A j \in 1..(i - 1) : CosDist(e, g[j]) # 0
        IN  /\ result[2] = 0
            /\ result[1] = IF args[4] > 0 THEN args[3][first] ELSE Unknown
            /\ \A i \in Identical(e, g) :
                  (args[4] > 0 /\ \A j \in 1..(i - 1) : CosDist(e, g[j]) # 0)
                      => result[1] = args[3][i]

\* the query is the second entry's vector, the first entry holds the same
\* vector under another label, and the first entry's label came back
C22_Witness ==
    /\ Called("match_face")
    /\ Len(args[2]) > 1
    /\ args[2][2] = args[1]
    /\ args[2][1] = args[1]
    /\ args[3][1] # args[3][2]
    /\ args[4] > 0
    /\ result = <<args[3][1], 0, 1>>

\* ---- crop_face_with_buffer
\* C23: for every detected box the crop rectangle contains the box, lies
\* inside the frame, and has x1 < x2 and y1 < y2.
C23_CropGeometry ==
    Called("crop_face_with_buffer") =>
        LET b == args[2]
            r == result
        IN  /\ r[1] * SubPixel <= Units(b[1])
            /\ r[2] * SubPixel <= Units(b[2])
            /\ r[3] * SubPixel >= Units(b[3])
            /\ r[4] * SubPixel >= Units(b[4])
            /\ 0 <= r[1] /\ r[3] <= args[1][1]
            /\ 0 <= r[2] /\ r[4] <= args[1][2]
            /\ r[1] < r[3]
            /\ r[2] < r[4]

\* what holds of crop_face_with_buffer: for a box that is at least one pixel
\* wide and high after truncation the crop is inside the frame, not empty,
\* and contains the truncated box; the 50 x 100 box at the centre of the
\* frame is strictly inside its crop
CropOfTruncatedBox ==
    (Called("crop_face_with_buffer")
        /\ args[2][1][1] < args[2][3][1] /\ args[2][2][1] < args[2][4][1]) =>
        LET b == args[2]
            r == result
        IN  /\ 0 <= r[1] /\ r[1] <= b[1][1] /\ b[3][1] <= r[3] /\ r[3] <= args[1][1]
            /\ 0 <= r[2] /\ r[2] <= b[2][1] /\ b[4][1] <= r[4] /\ r[4] <= args[1][2]
            /\ r[1] < r[3] /\ r[2] < r[4]
            /\ (<<b[1][1], b[2][1], b[3][1], b[4][1]>> = <<295, 190, 345, 290>>
                  => r[1] < 295 /\ r[2] < 190 /\ r[3] > 345 /\ r[4] > 290)

\* ---- start
\* C24: when the detector, the embedding model, its configured weights or
\* the gallery fails to load, the caller of start() gets an exception, no
\* camera thread has been started, and the processor does not run on weights
\* other than the configured ones.
C24_StartupFatal ==
    (Called("start") /\ result[4] # "-"
        /\ (~args[1] \/ ~args[2] \/ args[3] = "fails" \/ ~args[4])) =>
        /\ result[4] = "exception"
        /\ result[3] = {}
        /\ result[1] = "raised"

\* ---- evidence and the forwarder
\* C25: once the worker has finished its frame, every evidence file that was
\* written is the image_path of some event that was posted.
C25_EvidenceReferenced ==
    pc["C1"] = "idle" =>
        \A f \in matched_files \cup unknown_files :
            \E i \in 1..Len(posted) : posted[i].image_path = f

\* C26: every box a worker takes up gets its event: the worker leaves the
\* handler of a box only for the hand-over of that box's event, and a frame
\* ends only from between two boxes with no box left; that is, k boxes give k
\* events in box order, and a frame's events all precede the next frame's.
C26_OneEventPerBox ==
    [][\A w \in Cameras :
          /\ (pc[w] \in {"hk_unlock", "hu_unlock"} /\ pc'[w] # pc[w]) => pc'[w] = "emit"
          /\ (pc[w] # "idle" /\ pc'[w] = "idle") => (pc[w] = "box" /\ remaining[w] = 0)]_vars

\* ---- latest_frames
\* C27: the entry of camera c changes only in a step of c's worker that holds
\* the lock, and becomes the frame that worker has just processed, whose
\* frame_counter is a multiple of frame_skip; a skipped frame, an empty read
\* and a reconnect leave the map as it was; the entries only move forward, and
\* what generate_frames reads, holding the lock, is no entry or the entry as
\* it is at that moment, the last one stored for that camera.
C27_LatestFrame ==
    /\ [](\A c \in DOMAIN latest_frames :
            /\ latest_frames[c][1] = c
            /\ latest_frames[c][2] % frame_skip = 0
            /\ latest_frames[c][2] <= frame_counter[c])
    /\ [][\A c \in Cameras :
            Get(latest_frames', c, <<>>) # Get(latest_frames, c, <<>>) =>
                /\ lock = c /\ pp[c] = "store"
                /\ latest_frames'[c] = <<c, frame_counter[c]>>
                /\ \A d \in Cameras \ {c} :
                      Get(latest_frames', d, <<>>) = Get(latest_frames, d, <<>>)
                /\ (c \in DOMAIN latest_frames => latest_frames[c][2] < frame_counter[c])]_vars
    /\ [][\A c \in Cameras :
            (pp[c] \in {"read", "skip_test"} /\ pp'[c] \in {"read", "skip_test"}) =>
                Get(latest_frames', c, <<>>) = Get(latest_frames, c, <<>>)]_vars
    /\ [][viewed' # viewed =>
            /\ lock = "viewer"
            /\ viewed'[2] = Get(latest_frames, viewed'[1], <<>>)
            /\ latest_frames' = latest_frames]_vars

\* with frame_skip above one, generate_frames has read the frame a camera
\* stored, and that camera has since read a frame that it skipped: the entry
\* is still the stored one
C27_Witness ==
    /\ frame_skip > 1
    /\ \E c \in Cameras :
          /\ viewed = <<c, <<c, frame_skip>>>>
          /\ frame_counter[c] = frame_skip + 1
          /\ pp[c] = "read"
          /\ latest_frames[c] = <<c, frame_skip>>

\* ---- downsampling
\* C28: the frame that goes on to detection is no wider and no higher than
\* the frame that was read, and it differs from the frame read only when the
\* capture resolution differs from the target.
C28_NeverUpsamples ==
    Called("downsample") =>
        /\ result[1] <= args[1][1]
        /\ result[2] <= args[1][2]
        /\ (result # args[1] => args[2] # stream_resolution)

\* ---- the ledger
\* C29: every ledger file that holds a record begins with the header row, and
\* every record is in the file of the hour in which it was written.
C29_LedgerFiles ==
    \A h \in DOMAIN csv_files :
        /\ csv_files[h] # <<>> => csv_files[h][1] = Header
        /\ \A i \in 1..Len(csv_files[h]) :
              csv_files[h][i] # Header => Hour(csv_files[h][i].ts) = h

\* ---- the unknown cooldown
\* C30: a camera's last_unknown_saved_time changes in exactly the steps of
\* handle_unknown_face in which an evidence image is written for that camera.
C30_CooldownOnWrite ==
    [][\A w \in Cameras :
          Get(last_unknown_saved_time', w, Skip) # Get(last_unknown_saved_time, w, Skip)
              <=> (pc[w] = "hu_check" /\ pc'[w] = "hu_unlock" /\ wrote'[w])]_vars

\* ---------------------------------------------------------------- C31
\* the worker of camera w takes the cooldown decision in this step
Decides(w) == pc[w] = "hu_check" /\ pc'[w] = "hu_unlock"

\* the unknown-evidence files of camera c
UnknownFilesOf(c) == { f \in unknown_files : f[1] = c }

\* C31: the unknown cooldown is per camera.  A decision of camera w's worker
\* (save or skip) leaves every other camera's entry of
\* last_unknown_saved_time and every other camera's evidence files as they
\* are, and it is a save exactly when camera w's own entry is absent or
\* older than unknown_interval, whatever the other camera's entry is; an
\* entry changes only in a decision of its own camera's worker.
C31_PerCameraCooldown ==
    [][ /\ \A w \in Cameras :
              Decides(w) =>
                  /\ \A c \in Cameras \ {w} :
                        /\ Get(last_unknown_saved_time', c, NoPath)
                              = Get(last_unknown_saved_time, c, NoPath)
                        /\ UnknownFilesOf(c)' = UnknownFilesOf(c)
                  /\ attempted'[w] <=>
                        \/ w \notin DOMAIN last_unknown_saved_time
                        \/ current_time[w] - last_unknown_saved_time[w]
                              > unknown_interval
        /\ \A c \in Cameras :
              Get(last_unknown_saved_time', c, NoPath)
                  # Get(last_unknown_saved_time, c, NoPath) => Decides(c)
      ]_vars

\* camera C2 has just saved although camera C1's cooldown, started no more
\* than unknown_interval before, is still running
C31_Witness ==
    /\ pc["C2"] = "hu_unlock"
    /\ attempted["C2"]
    /\ "C1" \in DOMAIN last_unknown_saved_time
    /\ "C2" \in DOMAIN last_unknown_saved_time
    /\ last_unknown_saved_time["C2"] - last_unknown_saved_time["C1"] \in 0..unknown_interval
    /\ UnknownFilesOf("C1") # {}
    /\ UnknownFilesOf("C2") # {}

\* ---------------------------------------------------------------- C32
\* C32: the confidence of every event is in [0,1]: 1 minus the match
\* distance when match_face returned a gallery label and 0 when it returned
\* Unknown, for every gallery, query and threshold.
C32_ConfidenceRange ==
    fn = "process_frame" =>
        /\ result[2] \in 0..1
        /\ result[1] = Unknown => result[2] = 0

\* ---------------------------------------------------------------- C33
\* self.confirmation_counts.get(name, 0)
Count(l) == Get(confirmation_counts, l, 0)

\* max(required_confirmations, 1)
EffectiveConfirmations == IF required_confirmations > 1 THEN required_confirmations ELSE 1

\* a worker is between the increment (line 521) and the test (line 522)
MidUpdate == \E w \in Cameras : pc[w] = "hk_test"

Passes ==
    { <<"post", i>> : i \in 1..Len(posted) }
        \cup { <<"thread", t>> : t \in { u \in Threads : ev[u].outcome = "pass" } }

PassKey(p) == IF p[1] = "post" THEN posted[p[2]].key ELSE ev[p[2]].key

PassTime(p) == IF p[1] = "post" THEN posted[p[2]].time ELSE ev[p[2]].now

CooldownMonotone ==
    [][\A c \in Cameras :
          Get(last_unknown_saved_time', c, 0) >= Get(last_unknown_saved_time, c, 0)]_vars

C35_OwnResolutionOnly ==
    \A w \in Cameras :
        resized[w] # "-" => (resized[w] = "yes" <=> TooLarge(actual[w]))

\* ---------------------------------------------------------------- C36
\* C36: once the stop flag is set a worker goes on to handle at most one
\* further frame (lines 344-364: process_frame with its table updates, and
\* the store into latest_frames).  With the flag set, a worker that is not
\* at the point of handling a frame never gets there, and a worker that is
\* there leaves it with that frame: the one frame it had read and tested
\* before the flag fell.
C36_OneMoreFrame ==
    [][\A w \in Cameras :
          ~running =>
              /\ lp[w] # "frame" => lp'[w] # "frame"
              /\ lp[w] = "frame" /\ lp'[w] # lp[w] => lp'[w] \in {"while", "except"}
      ]_vars

\* the flag is set while C1, which had passed the test of line 340 before,
\* is handling its one further frame; C2 saw the flag and has left the loop
C36_Witness ==
    /\ ~running
    /\ lp["C1"] = "frame"
    /\ observed["C2"]
    /\ lp["C2"] = "exited"

\* ---------------------------------------------------------------- C37
\* C37: a worker never has more than one opened capture handle, and when
\* its loop has ended, by whichever path, it has none.
C37_NoHandleLeak ==
    \A w \in Cameras :
        /\ handles[w] <= 1
        /\ lp[w] \in Ended => handles[w] = 0

\* C1 saw the stop flag and left the loop, its handle released by the
\* clean-up, while C2, about to read, still holds its one handle
C37_Witness ==
    /\ lp["C1"] = "exited"
    /\ cap["C1"] = "closed"
    /\ handles["C1"] = 0
    /\ observed["C1"]
    /\ lp["C2"] = "read"
    /\ handles["C2"] = 1

\* ---------------------------------------------------------------- C38
\* the running transcoder processes of a stream name
RunningOf(n) == { p \in 1..Len(procs) : procs[p].name = n /\ procs[p].alive }

\* the process tracked under a name is running
TrackedRunning(n) ==
    /\ n \in DOMAIN _processes
    /\ procs[_processes[n]].alive

\* C38: under any interleaving of ensure_stream, stop_stream and stop_all
\* there is at most one running transcoder process per stream name; a
\* running process is tracked in the table, or has just been popped by a
\* stop_stream that is about to stop it; ensure_stream on a name whose
\* tracked process is running starts no process and returns the playlist
\* url, and a process is started only for a name that has none running.
C38_StreamManager ==
    /\ [](\A n \in StreamNames : Cardinality(RunningOf(n)) <= 1)
    /\ [](\A p \in 1..Len(procs) :
            procs[p].alive =>
                \/ Get(_processes, procs[p].name, NoProc) = p
                \/ \E t \in Threads : sm_pc[t] = "st_stop" /\ sm[t].proc = p)
    /\ [][\A t \in Threads :
            /\ sm_pc[t] = "en_check" /\ sm_pc'[t] # "en_check"
                    /\ TrackedRunning(sm[t].name)
                 => /\ procs' = procs
                    /\ _processes' = _processes
                    /\ sm_pc'[t] = "en_unlock"
                    /\ sm'[t].ret = _public_playlist_url(sm[t].name)
            /\ sm_pc[t] = "en_popen" /\ Len(procs') > Len(procs)
                 => RunningOf(sm[t].name) = {}]_vars

\* stream c1 was stopped by a stop_all and started again: its first process
\* is dead, its second is running and tracked, and an ensure_stream("c1")
\* is returning the playlist url
C38_Witness ==
    /\ Len(procs) >= 2
    /\ procs[1].name = "c1" /\ ~procs[1].alive
    /\ procs[2].name = "c1" /\ procs[2].alive
    /\ Get(_processes, "c1", NoProc) = 2
    /\ sm_pc["t1"] = "en_unlock"
    /\ sm["t1"].ret = _public_playlist_url("c1")
    /\ sm_pc["t2"] = "sa_loop"
    /\ sm["t2"].names = <<>>

\* ---------------------------------------------------------------- C39
\* C39: when broadcast returns it has tried to send to every connection
\* that was active when it started, exactly the connections whose send
\* failed have been removed and all others remain.
C39_Broadcast ==
    bc_pc = "done" =>
        /\ sent_to = Range(bc_start)
        /\ Range(active_connections) = Range(bc_start) \ send_failed

\* the part that holds: broadcast removes exactly the connections whose
\* send failed, and every connection it did not try is still in the list
BroadcastRemovesFailed ==
    bc_pc = "done" =>
        /\ Range(active_connections) = Range(bc_start) \ send_failed
        /\ Range(bc_start) \ sent_to \subseteq Range(active_connections)

====
